---- MODULE Spec2Model ----
(***************************************************************************)
(* Flow-based optimal prescriptive trees (odtlearn): the single-sink flow  *)
(* formulation of flow_opt_ss.py and the estimators of flow_opt.py.        *)
(*                                                                         *)
(* Binary variables b and p are modelled as 0/1 integers.  Continuous      *)
(* variables (w, z, zeta, g) are modelled in units of 1/Scale: the value   *)
(* v of the model stands for the real number v/Scale, and the constant 1   *)
(* of a constraint stands as Scale.                                        *)
(***************************************************************************)
EXTENDS Integers, FiniteSets, Sequences, TLC

\* ------------------------------------------------------------------ bounds
MaxDepth == 2

NumFeatures == 2

\* depth of the trees of the flow model
FlowDepth == 1

\* continuous values are multiples of 1/Scale
Scale == 1

\* ---------------------------------------------------------------- topology
Features == 1..NumFeatures

Pow2(k) == 2 ^ k

\* internal nodes 1..2^d-1 and leaves 2^d..2^(d+1)-1 of the complete tree
Nodes(d) == 1..(Pow2(d) - 1)

Leaves(d) == Pow2(d)..(Pow2(d + 1) - 1)

NodesAndLeaves(d) == Nodes(d) \cup Leaves(d)

get_left_children(n) == 2 * n

get_right_children(n) == 2 * n + 1

RECURSIVE get_ancestors(_)
get_ancestors(n) ==
    IF n <= 1 THEN {} ELSE {n \div 2} \cup get_ancestors(n \div 2)

RECURSIVE NodeDepth(_)
NodeDepth(n) == IF n <= 1 THEN 0 ELSE 1 + NodeDepth(n \div 2)

\* sum of f[e] over e in S
RECURSIVE quicksum(_, _)
quicksum(f, S) ==
    IF S = {} THEN 0
    ELSE LET e == CHOOSE e \in S : TRUE
         IN  f[e] + quicksum(f, S \ {e})

\* ------------------------------------------------------------------- state
VARIABLES
    depth,      \* depth of the tree of this fit
    b,          \* b[<<n, f>>]: node n branches on feature f
    p,          \* p[n]: node n is a terminal (prediction) node
    assigned,   \* the solver has fixed b and p of nodes 1..assigned
    phase,      \* "assign", "ready", "trace", "terminal", "stuck"
    x,          \* feature vector of the datapoint being routed
    node,       \* node the datapoint is at
    path,       \* nodes the datapoint has visited, root first
    w,          \* w[<<n, k>>]: weight of treatment k at node n, in 1/Scale
    wdone,      \* the solver has fixed w of nodes 1..wdone
    treatments_filter,  \* treatments the estimator filters out ({}: none)
    ti,         \* observed treatment t[i] of the datapoint
    z,          \* z[n]: flow of the datapoint into node n, in 1/Scale
    zeta,       \* zeta[n]: flow of the datapoint absorbed at n, in 1/Scale
    X,          \* training rows: X[i] is the feature vector of row i
    t,          \* t[i]: observed treatment of row i
    gain,       \* gain[i]: the objective coefficient y[i] / ipw[i]
    cuts,       \* lazy constraints added to the master problem so far
    incumbent,  \* best candidate the solver has accepted (NoCand: none)
    status,     \* "off", "solving", "optimal", "aborted"
    cb,         \* the callback: its state, context, candidate, added cuts
    callback_counter_integer,
    callback_counter_integer_success,
    callback_counter_general,
    callback_counter_general_success,
    total_callback_time,  \* ticks spent in the callback, by context/success
    fit_values, \* b_value, w_value, p_value of the estimator (or not set)
    direct,     \* result of the direct (flow) fit on the same data
    workers,    \* callback invocation in progress on each solver thread
    history,    \* invocations completed, by context and by outcome
    call        \* the estimator call in progress: arguments and position

structVars == <<depth, b, p, assigned>>

traceVars == <<x, node, path>>

weightVars == <<w, wdone, treatments_filter>>

flowVars == <<ti, z, zeta>>

solveVars == <<structVars, phase, traceVars, weightVars, flowVars>>

dataVars == <<X, t, gain>>

counterVars == <<callback_counter_integer, callback_counter_integer_success,
                 callback_counter_general, callback_counter_general_success,
                 total_callback_time>>

bendersVars == <<dataVars, cuts, incumbent, status, cb, counterVars,
                 fit_values, direct>>

auxVars == <<workers, history, call>>

vars == <<solveVars, bendersVars, auxVars>>

\* treatments are 0..K-1; the tests draw them with randint(2)
Treatments == {0, 1}

NoRow == [f \in Features |-> 0]

\* --------------------------------------------------- structural constraints
SumB(bb, n) == quicksum([f \in Features |-> bb[<<n, f>>]], Features)

SumAncP(pp, n) == quicksum(pp, get_ancestors(n))

\* a plausible slip: the ancestor term left out of the node constraint
BranchConstrNoAncestors(bb, pp, n) == SumB(bb, n) + pp[n] = 1

\* sum(b[n,f], f) + p[n] + sum(p[m], m in A(n)) = 1   forall n in Nodes
BranchConstr(bb, pp, n) == SumB(bb, n) + pp[n] + SumAncP(pp, n) = 1

\* a plausible slip: the leaf constraint stated as an inequality
LeafConstrAtMost(pp, n) == pp[n] + SumAncP(pp, n) <= 1

\* p[n] + sum(p[m], m in A(n)) = 1   forall n in Leaves
LeafConstr(pp, n) == pp[n] + SumAncP(pp, n) = 1

tree_structure_constraints(bb, pp, d) ==
    /\ \A n \in Nodes(d) : BranchConstr(bb, pp, n)
    /\ \A n \in Leaves(d) : LeafConstr(pp, n)

\* --------------------------------------------------- Benders estimator state
\* the training rows of a fit
Rows == DOMAIN X

\* y[i] / ipw[i] of the two rows: equal, zero for the first row, or larger
\* for the second
Gains == {<<1, 1>>, <<0, 1>>, <<1, 2>>}

\* depth=1, the default of BendersOPT_IPW.__init__
DefaultDepth == 1

\* fractional (general-context) callback invocations of one solve
MaxGeneral == 1

\* integral candidates examined within the time limit of the 13-row scenario
MaxScenarioCalls == 6

\* integral candidates the solver examines before its time limit expires
MaxInteger == 3

NoCand == [set |-> FALSE]

NotFitted == [set |-> FALSE]

IdleCallback ==
    [state |-> "idle", context |-> "none", cand |-> NoCand, added |-> {}]

NoTime ==
    [integer |-> 0, integer_success |-> 0, general |-> 0, general_success |-> 0]

\* a plausible slip: a success counter that starts at one
InitCountersSuccessOne ==
    /\ total_callback_time = NoTime
    /\ callback_counter_integer = 0
    /\ callback_counter_integer_success = 1
    /\ callback_counter_general = 0
    /\ callback_counter_general_success = 0

\* BendersOPT_IPW.__init__: all callback counters and timers start at 0
InitCounters ==
    /\ total_callback_time = NoTime
    /\ callback_counter_integer = 0
    /\ callback_counter_integer_success = 0
    /\ callback_counter_general = 0
    /\ callback_counter_general_success = 0

\* the solver threads that can run the callback
Threads == {1, 2}

IdleWorker == [pc |-> "idle", context |-> "none", new |-> {}, seen |-> 0]

NoHistory == [integer |-> 0, general |-> 0, integer_cut |-> 0,
              general_cut |-> 0]

NoThreads ==
    /\ workers = [th \in Threads |-> IdleWorker]
    /\ history = NoHistory

NoCall == [est |-> "none"]

NoAux ==
    /\ NoThreads
    /\ call = NoCall

NoBenders ==
    /\ X = <<>>
    /\ t = <<>>
    /\ gain = <<>>
    /\ cuts = {}
    /\ incumbent = NoCand
    /\ status = "off"
    /\ cb = IdleCallback
    /\ InitCounters
    /\ fit_values = NotFitted
    /\ direct = NotFitted

\* ------------------------------------------------------------------ solver
\* The solver fixes the binary variables of one node after the other and
\* drops a branch as soon as a constraint over fixed variables is violated;
\* the constraint of node n reads only n and its ancestors, so the complete
\* assignments it reaches are exactly the binary solutions of the
\* structural constraints.
NoWeights ==
    /\ w = [nk \in NodesAndLeaves(depth) \X Treatments |-> 0]
    /\ wdone = 0

NoFlow ==
    /\ ti = 0
    /\ z = [n \in NodesAndLeaves(depth) |-> 0]
    /\ zeta = [n \in NodesAndLeaves(depth) |-> 0]

InitStruct ==
    /\ depth \in 0..MaxDepth
    /\ b = [nf \in Nodes(depth) \X Features |-> 0]
    /\ p = [n \in NodesAndLeaves(depth) |-> 0]
    /\ assigned = 0
    /\ phase = "assign"
    /\ x = NoRow
    /\ node = 0
    /\ path = <<>>
    /\ NoWeights
    /\ treatments_filter = {}
    /\ NoFlow
    /\ NoBenders
    /\ NoAux

SolverAssign ==
    /\ phase = "assign"
    /\ LET n == assigned + 1
       IN  \E bv \in [Features -> {0, 1}], pv \in {0, 1} :
             /\ n \in Leaves(depth) => bv = NoRow
             /\ b' = [nf \in DOMAIN b |->
                        IF nf[1] = n THEN bv[nf[2]] ELSE b[nf]]
             /\ p' = [p EXCEPT ![n] = pv]
             /\ IF n \in Nodes(depth)
                  THEN BranchConstr(b', p', n)
                  ELSE LeafConstr(p', n)
             /\ assigned' = n
             /\ phase' = IF n = Pow2(depth + 1) - 1 THEN "ready" ELSE "assign"
    /\ UNCHANGED <<depth, traceVars, weightVars, flowVars>>
    /\ UNCHANGED bendersVars
    /\ UNCHANGED auxVars

\* ------------------------------------------------------------ path tracing
Selected(bb, n) == {f \in Features : bb[<<n, f>>] = 1}

BeginTrace ==
    /\ phase = "ready"
    /\ \E row \in [Features -> {0, 1}] : x' = row
    /\ node' = 1
    /\ path' = <<1>>
    /\ phase' = "trace"
    /\ UNCHANGED <<structVars, weightVars, flowVars>>
    /\ UNCHANGED bendersVars
    /\ UNCHANGED auxVars

\* stop at the first node with p = 1; otherwise follow the selected feature:
\* left child on value 0, right child on value 1
TraceStep ==
    /\ phase = "trace"
    /\ IF p[node] = 1
         THEN /\ phase' = "terminal"
              /\ UNCHANGED <<node, path>>
         ELSE IF node \in Nodes(depth) /\ Selected(b, node) # {}
           THEN \E f \in Selected(b, node) :
                  LET m == IF x[f] = 0 THEN get_left_children(node)
                                       ELSE get_right_children(node)
                  IN  /\ node' = m
                      /\ path' = Append(path, m)
                      /\ phase' = "trace"
           ELSE /\ phase' = "stuck"
                /\ UNCHANGED <<node, path>>
    /\ UNCHANGED <<structVars, x, weightVars, flowVars>>
    /\ UNCHANGED bendersVars
    /\ UNCHANGED auxVars

NextStruct == SolverAssign \/ BeginTrace \/ TraceStep

SpecStruct == InitStruct /\ [][NextStruct]_vars

\* ------------------------------------------------- weights (single sink)
SumW(ww, n, K) == quicksum([k \in Treatments |-> ww[<<n, k>>]], K)

\* a plausible slip: the filtered treatments left unconstrained
WeightConstrFilteredFree(ww, pp, n, filt) ==
    SumW(ww, n, Treatments \ filt) = Scale * pp[n]

\* sum(w[n,k], k in treatments) = p[n], with or without a treatment filter
WeightConstr(ww, pp, n, filt) ==
    IF filt # {}
      THEN /\ SumW(ww, n, Treatments \ filt) = Scale * pp[n]
           /\ SumW(ww, n, Treatments \cap filt) = 0
      ELSE SumW(ww, n, Treatments) = Scale * pp[n]

\* w is declared with a lower bound only: the solver may try values above 1
WMax == Scale + 1

SolverAssignW ==
    /\ phase \in {"ready", "weights"}
    /\ LET n == wdone + 1
       IN  \E wv \in [Treatments -> 0..WMax] :
             /\ w' = [nk \in DOMAIN w |->
                        IF nk[1] = n THEN wv[nk[2]] ELSE w[nk]]
             /\ WeightConstr(w', p, n, treatments_filter)
             /\ wdone' = n
             /\ phase' = IF n = Pow2(depth + 1) - 1 THEN "weighted"
                                                    ELSE "weights"
    /\ UNCHANGED <<structVars, traceVars, treatments_filter, flowVars>>
    /\ UNCHANGED bendersVars
    /\ UNCHANGED auxVars

\* ---------------------------------------------- flow and arc constraints
\* z[i,n] = z[i,l(n)] + z[i,r(n)] + zeta[i,n]    forall i, n in Nodes
FlowConstrNode(zz, zt, n) ==
    zz[n] = zz[get_left_children(n)] + zz[get_right_children(n)] + zt[n]

\* a plausible slip: a leaf may absorb less than the flow it receives
FlowConstrLeafAtMost(zz, zt, n) == zt[n] <= zz[n]

\* zeta[i,n] = z[i,n]    forall i, n in Leaves
FlowConstrLeaf(zz, zt, n) == zt[n] = zz[n]

\* a plausible slip: the left arc opened by any selected feature
ArcLeftAnyFeature(zz, bb, xx, n) ==
    zz[get_left_children(n)] <= Scale * SumB(bb, n)

\* a plausible slip: the left arc compared against 1 instead of 0
LeftCapacityUpToOne(bb, xx, n) ==
    Scale * quicksum([f \in Features |-> bb[<<n, f>>]],
                     {f \in Features : xx[f] <= 1})

\* sum(b[n,f], f if x[i,f]<=0), the capacity of the arc n -> l(n)
LeftCapacity(bb, xx, n) ==
    Scale * quicksum([f \in Features |-> bb[<<n, f>>]],
                     {f \in Features : xx[f] <= 0})

\* sum(b[n,f], f if x[i,f]=1), the capacity of the arc n -> r(n)
RightCapacity(bb, xx, n) ==
    Scale * quicksum([f \in Features |-> bb[<<n, f>>]],
                     {f \in Features : xx[f] = 1})

\* z[i,l(n)] <= sum(b[n,f], f if x[i,f]<=0)    forall i, n in Nodes
ArcLeft(zz, bb, xx, n) ==
    zz[get_left_children(n)] <= LeftCapacity(bb, xx, n)

\* a plausible slip: the right arc opened by any selected feature
ArcRightAnyFeature(zz, bb, xx, n) ==
    zz[get_right_children(n)] <= Scale * SumB(bb, n)

\* z[i,r(n)] <= sum(b[n,f], f if x[i,f]=1)    forall i, n in Nodes
ArcRight(zz, bb, xx, n) ==
    zz[get_right_children(n)] <= RightCapacity(bb, xx, n)

\* a plausible slip: absorption bounded by the total weight of the node
ArcSinkAnyTreatment(zt, ww, tt, n) == zt[n] <= SumW(ww, n, Treatments)

\* a plausible slip: absorption bounded by the weight of another treatment
ArcSinkOtherTreatment(zt, ww, tt, n) == zt[n] <= ww[<<n, 1 - tt>>]

\* zeta[i,n] <= w[n,T[i]] for all n in N+L, i
ArcSink(zt, ww, tt, n) == zt[n] <= ww[<<n, tt>>]

\* z and zeta are declared with a lower bound only
ZMax == Scale + 1

\* the flow model of one datapoint over a fixed structure
FlowFeasible(zz, zt, bb, ww, xx, tt, d) ==
    /\ \A n \in Nodes(d) : FlowConstrNode(zz, zt, n)
    /\ \A n \in Leaves(d) : FlowConstrLeaf(zz, zt, n)
    /\ \A n \in Nodes(d) : ArcLeft(zz, bb, xx, n) /\ ArcRight(zz, bb, xx, n)
    /\ \A n \in NodesAndLeaves(d) : ArcSink(zt, ww, tt, n)

InitFlow ==
    /\ depth = FlowDepth
    /\ b = [nf \in Nodes(depth) \X Features |-> 0]
    /\ p = [n \in NodesAndLeaves(depth) |-> 0]
    /\ assigned = 0
    /\ phase = "assign"
    /\ x = NoRow
    /\ node = 0
    /\ path = <<>>
    /\ NoWeights
    /\ treatments_filter \in SUBSET Treatments
    /\ NoFlow
    /\ NoBenders
    /\ NoAux

\* the arc constraint that bounds the flow into node n (n is not the root)
ArcInto(zz, bb, xx, n) ==
    IF n = get_left_children(n \div 2)
      THEN ArcLeft(zz, bb, xx, n \div 2)
      ELSE ArcRight(zz, bb, xx, n \div 2)

\* the constraints whose last variable is one of node n, the nodes above n
\* being fixed after it
FlowConstrsAt(zz, zt, bb, ww, xx, tt, d, n) ==
    /\ IF n \in Leaves(d) THEN FlowConstrLeaf(zz, zt, n)
                          ELSE FlowConstrNode(zz, zt, n)
    /\ ArcSink(zt, ww, tt, n)
    /\ n # 1 => ArcInto(zz, bb, xx, n)

\* All solutions <<z, zeta>> of the flow model of one datapoint that extend
\* zz, zt on the nodes 1..n: the nodes are fixed leaves first, and a branch
\* is dropped as soon as a constraint over fixed variables fails.
RECURSIVE FlowSolutions(_, _, _, _, _, _, _, _)
FlowSolutions(n, zz, zt, bb, ww, xx, tt, d) ==
    IF n = 0 THEN {<<zz, zt>>}
    ELSE UNION {
           IF FlowConstrsAt([zz EXCEPT ![n] = c[1]], [zt EXCEPT ![n] = c[2]],
                            bb, ww, xx, tt, d, n)
             THEN FlowSolutions(n - 1, [zz EXCEPT ![n] = c[1]],
                                [zt EXCEPT ![n] = c[2]], bb, ww, xx, tt, d)
             ELSE {}
           : c \in (0..ZMax) \X (0..ZMax) }

\* the solver fixes the flow variables of one datapoint (x[i], t[i])
SolverAssignFlow ==
    /\ phase = "weighted"
    /\ \E row \in [Features -> {0, 1}], k \in Treatments :
         /\ x' = row
         /\ ti' = k
         /\ \E sol \in FlowSolutions(Pow2(depth + 1) - 1, z, zeta, b, w,
                                     row, k, depth) :
              /\ z' = sol[1]
              /\ zeta' = sol[2]
    /\ phase' = "flowed"
    /\ UNCHANGED <<structVars, node, path, weightVars>>
    /\ UNCHANGED bendersVars
    /\ UNCHANGED auxVars

NextFlow == SolverAssign \/ SolverAssignW \/ SolverAssignFlow

SpecFlow == InitFlow /\ [][NextFlow]_vars

\* ------------------------------------------------- Benders master problem
ZeroB(d) == [nf \in Nodes(d) \X Features |-> 0]

\* (written out as an explicit function)
ZeroP(d) == [n \in NodesAndLeaves(d) |-> 0] @@ <<>>

ZeroW(d) == [nk \in NodesAndLeaves(d) \X Treatments |-> 0]

\* the w constraints of every node under the structure pp, no filter
weight_constraints(ww, pp, d) ==
    \A n \in NodesAndLeaves(d) : WeightConstr(ww, pp, n, {})

\* all solutions <<b, p, w>> of the structural and w constraints at the
\* default depth
StructSolutions ==
    LET trees == {bp \in [Nodes(DefaultDepth) \X Features -> {0, 1}]
                           \X [NodesAndLeaves(DefaultDepth) -> {0, 1}] :
                    tree_structure_constraints(bp[1], bp[2], DefaultDepth)}
    IN  UNION {
          {<<bp[1], bp[2], ww>> :
             ww \in {v \in [NodesAndLeaves(DefaultDepth) \X Treatments
                              -> 0..WMax] :
                       weight_constraints(v, bp[2], DefaultDepth)}}
          : bp \in trees }

\* g[i]: addVars(..., ub=1), lower bound 0 by default
GUpper == Scale

\* sum(g[i] * y[i] / ipw[i], i)
Objective(gg) == quicksum([i \in Rows |-> gg[i] * gain[i]], Rows)

\* ----------------------------------------------------- separation oracle
Child(bb, xx, n) ==
    LET f == CHOOSE f \in Selected(bb, n) : TRUE
    IN  IF xx[f] = 0 THEN get_left_children(n) ELSE get_right_children(n)

\* the nodes row xx visits from node n on, down to the first node with
\* p = 1; a trailing 0 marks a trace that found no terminal node
RECURSIVE TracePath(_, _, _, _, _)
TracePath(n, bb, pp, xx, d) ==
    IF pp[n] = 1 THEN <<n>>
    ELSE IF n \in Nodes(d) /\ Selected(bb, n) # {}
      THEN <<n>> \o TracePath(Child(bb, xx, n), bb, pp, xx, d)
      ELSE <<n, 0>>

Last(s) == s[Len(s)]

TraceFailed(pth) == Last(pth) = 0

\* The subproblem of row i under a candidate: its value is the weight the
\* terminal node of i's path gives to t[i]; the cut is the minimum cut of
\* i's flow network around the path: the sink arcs of the nodes on the path
\* (target) and the arcs that leave the path (left: the arc to the left
\* child of a node where i goes right; right: the converse; both arcs of a
\* terminal node that has children).
benders_subproblem(cand, i) ==
    LET pth == TracePath(1, cand.b, cand.p, X[i], depth)
        steps == 1..(Len(pth) - 1)
        stop == {Last(pth)} \cap Nodes(depth)
    IN  [value |-> IF TraceFailed(pth) THEN 0
                   ELSE cand.w[<<Last(pth), t[i]>>],
         cut |-> [i |-> i,
                  left |-> stop \cup
                           {pth[k] : k \in
                              {j \in steps :
                                 pth[j + 1] = get_right_children(pth[j])}},
                  right |-> stop \cup
                            {pth[k] : k \in
                               {j \in steps :
                                  pth[j + 1] = get_left_children(pth[j])}},
                  target |-> {pth[k] : k \in 1..Len(pth)} \ {0}]]

\* right-hand side of the cut  g[i] <= ...  at the point (bb, ww)
CutRHS(c, bb, ww) ==
      quicksum([n \in c.left |-> LeftCapacity(bb, X[c.i], n)], c.left)
    + quicksum([n \in c.right |-> RightCapacity(bb, X[c.i], n)], c.right)
    + quicksum([n \in c.target |-> ww[<<n, t[c.i]>>]], c.target)

CutHolds(c, bb, ww, gg) == gg[c.i] <= CutRHS(c, bb, ww)

MasterFeasible(cand) ==
    \A c \in cuts : CutHolds(c, cand.b, cand.w, cand.g)

\* largest value of g[i] that the bound and the cuts of row i allow under
\* the structure s
GMax(s, i) ==
    LET rhs == {GUpper} \cup {CutRHS(c, s[1], s[3]) : c \in {k \in cuts : k.i = i}}
    IN  CHOOSE v \in rhs : \A u \in rhs : v <= u

\* The integral solutions the solver finds for the master problem: a
\* solution of the structural constraints with every g[i], which the
\* objective maximizes, at the largest value the cuts leave it.
Candidates ==
    {[set |-> TRUE, b |-> s[1], p |-> s[2], w |-> s[3],
      g |-> [i \in Rows |-> GMax(s, i)]] : s \in StructSolutions}

\* a plausible slip: a candidate no better than the incumbent proposed again
ImprovesOrTies(cand) ==
    \/ incumbent = NoCand
    \/ Objective(cand.g) >= Objective(incumbent.g)

Improves(cand) ==
    \/ incumbent = NoCand
    \/ Objective(cand.g) > Objective(incumbent.g)

Eligible == {c \in Candidates : MasterFeasible(c) /\ Improves(c)}

\* a plausible slip: a row without terminal node is skipped
UntraceableSkipped(cand) == {}

\* rows whose trace finds no terminal node under the candidate
Untraceable(cand) ==
    {i \in Rows : TraceFailed(TracePath(1, cand.b, cand.p, X[i], depth))}

\* a plausible slip: a cut also when the surrogate equals the value
ViolatedOrTight(cand) ==
    {i \in Rows : cand.g[i] >= benders_subproblem(cand, i).value}

\* rows whose surrogate over-estimates the recomputed subproblem value
Violated(cand) ==
    {i \in Rows : cand.g[i] > benders_subproblem(cand, i).value}

TreatmentsValid(tt) ==
    LET vals == {tt[i] : i \in DOMAIN tt}
    IN  /\ \A k \in vals : k >= 0
        /\ 0 \in vals
        /\ \A k \in vals : k <= Cardinality(vals) - 1

FirstOne == [f \in Features |-> IF f = 1 THEN 1 ELSE 0]

\* The training data of the model: two rows, the first given treatment 0
\* and the second treatment 1, that agree on every feature or on all but
\* the first.
Designs == {<<NoRow, NoRow>>, <<NoRow, FirstOne>>}

Assignments == {<<0, 1>>}

IdleSolve ==
    /\ depth = DefaultDepth
    /\ b = ZeroB(depth)
    /\ p = ZeroP(depth)
    /\ assigned = 0
    /\ phase = "benders"
    /\ x = NoRow
    /\ node = 0
    /\ path = <<>>
    /\ NoWeights
    /\ treatments_filter = {}
    /\ NoFlow

\* fit has validated the data and built the master problem
InitBenders ==
    /\ IdleSolve
    /\ X \in Designs
    /\ t \in {tt \in Assignments : TreatmentsValid(tt)}
    /\ gain \in Gains
    /\ cuts = {}
    /\ incumbent = NoCand
    /\ status = "solving"
    /\ cb = IdleCallback
    /\ InitCounters
    /\ fit_values = NotFitted
    /\ direct = NotFitted
    /\ NoAux

Tick(field) ==
    [total_callback_time EXCEPT ![field] = total_callback_time[field] + 1]

\* One run of the oracle on an integral candidate.  Every row is traced; a
\* row without terminal node is a fatal error that aborts the solve;
\* otherwise a cut is added for each row whose g[i] over-estimates its
\* subproblem value.
OracleInteger(cand) ==
    /\ callback_counter_integer' = callback_counter_integer + 1
    /\ IF Untraceable(cand) # {}
         THEN /\ cb' = [state |-> "error", context |-> "integer",
                        cand |-> cand, added |-> {}]
              /\ status' = "aborted"
              /\ UNCHANGED <<cuts, total_callback_time,
                             callback_counter_integer_success>>
         ELSE LET new == {benders_subproblem(cand, i).cut :
                            i \in Violated(cand)}
              IN  /\ cuts' = cuts \cup new
                  /\ cb' = [state |-> IF new # {} THEN "cut-added"
                                                  ELSE "no-op",
                            context |-> "integer", cand |-> cand,
                            added |-> new]
                  /\ callback_counter_integer_success' =
                       IF new # {} THEN callback_counter_integer_success + 1
                                   ELSE callback_counter_integer_success
                  /\ total_callback_time' =
                       IF new # {}
                         THEN [Tick("integer") EXCEPT
                                 !.integer_success = @ + 1]
                         ELSE Tick("integer")
                  /\ UNCHANGED status
    /\ UNCHANGED <<callback_counter_general,
                   callback_counter_general_success>>

\* a solve whose time limit does not expire: every structure can be proposed
\* once to be cut and once to be accepted
LoopBudget == 2 * Cardinality(StructSolutions)

\* integral candidates the solver examines before its time limit expires
CallBudget ==
    CASE phase = "scenario" -> MaxScenarioCalls
      [] phase = "loop" -> LoopBudget
      [] OTHER -> MaxInteger

\* the solver has an integral candidate that satisfies the master problem
\* and improves on the incumbent, and calls the callback with it
CallbackInteger ==
    /\ status = "solving"
    /\ cb.state = "idle"
    /\ callback_counter_integer < CallBudget
    /\ \E cand \in Eligible : OracleInteger(cand)
    /\ UNCHANGED <<solveVars, dataVars, incumbent, fit_values, direct>>
    /\ UNCHANGED auxVars

\* the solver calls the callback at a node with a fractional relaxation:
\* the call is counted and no cut is considered
CallbackGeneral ==
    /\ status = "solving"
    /\ cb.state = "idle"
    /\ callback_counter_general < MaxGeneral
    /\ callback_counter_general' = callback_counter_general + 1
    /\ total_callback_time' = Tick("general")
    /\ cb' = [state |-> "no-op", context |-> "general",
              cand |-> NoCand, added |-> {}]
    /\ UNCHANGED <<cuts, status, callback_counter_integer,
                   callback_counter_integer_success,
                   callback_counter_general_success>>
    /\ UNCHANGED <<solveVars, dataVars, incumbent, fit_values, direct>>
    /\ UNCHANGED auxVars

\* the callback returns; an integral candidate that drew no cut becomes the
\* incumbent
CallbackReturn ==
    /\ cb.state \in {"no-op", "cut-added"}
    /\ incumbent' = IF cb.state = "no-op" /\ cb.context = "integer"
                      THEN cb.cand ELSE incumbent
    /\ cb' = IdleCallback
    /\ UNCHANGED <<solveVars, dataVars, cuts, status, counterVars,
                   fit_values, direct>>
    /\ UNCHANGED auxVars

\* no candidate of the master problem improves on the incumbent
SolverFinish ==
    /\ status = "solving"
    /\ cb.state = "idle"
    /\ incumbent # NoCand
    /\ Eligible = {}
    /\ status' = "optimal"
    /\ UNCHANGED <<solveVars, dataVars, cuts, incumbent, cb, counterVars,
                   fit_values, direct>>
    /\ UNCHANGED auxVars

\* the time limit expires while candidates remain
SolverTimeLimit ==
    /\ status = "solving"
    /\ cb.state = "idle"
    /\ callback_counter_integer = CallBudget
    /\ Eligible # {}
    /\ status' = "time_limit"
    /\ UNCHANGED <<solveVars, dataVars, cuts, incumbent, cb, counterVars,
                   fit_values, direct>>
    /\ UNCHANGED auxVars

\* fit reads b_value, w_value and p_value after optimize has returned with
\* a solution
FitReadValues ==
    /\ status \in {"optimal", "time_limit"}
    /\ incumbent # NoCand
    /\ fit_values = NotFitted
    /\ fit_values' = [set |-> TRUE, b |-> incumbent.b, w |-> incumbent.w,
                      p |-> incumbent.p, obj |-> Objective(incumbent.g)]
    /\ UNCHANGED <<solveVars, dataVars, cuts, incumbent, status, cb,
                   counterVars, direct>>
    /\ UNCHANGED auxVars

\* ------------------------------------------------- direct (flow) estimator
\* largest flow z[i,1] a datapoint (xx, tt) can send under the structure
\* (bb, ww) in the flow model
MaxFlow(bb, ww, xx, tt, d) ==
    LET vals == {sol[1][1] : sol \in
                   FlowSolutions(Pow2(d + 1) - 1, ZeroP(d), ZeroP(d),
                                 bb, ww, xx, tt, d)}
    IN  CHOOSE v \in vals : \A u \in vals : u <= v

\* MaxFlow tabulated over the structures of the default depth
FlowValue ==
    [q \in StructSolutions \X [Features -> {0, 1}] \X Treatments |->
       MaxFlow(q[1][1], q[1][3], q[2], q[3], DefaultDepth)] @@ <<>>

\* largest contribution of row i to the objective sum(z[i,1] * y[i] / ipw[i])
\* (the gains of the model are not negative)
BestRowObjective(s, i) == FlowValue[<<s, X[i], t[i]>>] * gain[i]

DirectObjective(s) ==
    quicksum([i \in Rows |-> BestRowObjective(s, i)], Rows)

\* a plausible slip: the objective minimized
Smallest(S) == CHOOSE v \in S : \A u \in S : v <= u

\* setObjective(obj, GRB.MAXIMIZE)
Largest(S) == CHOOSE v \in S : \A u \in S : u <= v

\* the solutions of the direct model whose objective is best
DirectOptimal(best) == {s \in StructSolutions : DirectObjective(s) = best}

\* the treatments the fitted tree (bb, pp, ww) prescribes for row xx: those
\* of greatest weight at the terminal node of the row's path
Predict(bb, pp, ww, xx) ==
    LET n == Last(TracePath(1, bb, pp, xx, depth))
    IN  {k \in Treatments : \A j \in Treatments : ww[<<n, j>>] <= ww[<<n, k>>]}

\* FlowOPT_IPW.fit on the same data and depth ends at any optimal solution;
\* recorded are its objective value and its predictions on the training rows
FitDirect ==
    /\ fit_values # NotFitted
    /\ direct = NotFitted
    /\ \E s \in DirectOptimal(Largest({DirectObjective(q) :
                                        q \in StructSolutions})) :
         direct' = [set |-> TRUE, obj |-> DirectObjective(s),
                    predictions |->
                      [i \in Rows |-> Predict(s[1], s[2], s[3], X[i])]]
    /\ UNCHANGED <<solveVars, dataVars, cuts, incumbent, status, cb,
                   counterVars, fit_values>>
    /\ UNCHANGED auxVars

NextBenders ==
    \/ CallbackInteger
    \/ CallbackGeneral
    \/ CallbackReturn
    \/ SolverFinish
    \/ SolverTimeLimit
    \/ FitReadValues
    \/ FitDirect

SpecBenders == InitBenders /\ [][NextBenders]_vars

\* ------------------------------------------- callbacks on several threads
\* callback invocations the solver starts before it stops
MaxInvocations == 3

Started ==
    Cardinality({th \in Threads : workers[th].pc # "idle"})
      + history.integer + history.general

\* the cuts the oracle finds for a candidate
NewCuts(cand) ==
    {benders_subproblem(cand, i).cut : i \in Violated(cand)}

\* A solver thread reaches a callback point and enters the callback, with an
\* integral candidate that satisfies the cuts added so far, or with a
\* fractional relaxation.
ThreadInvoke(th) ==
    /\ status = "solving"
    /\ workers[th].pc = "idle"
    /\ Started < MaxInvocations
    /\ \/ \E cand \in {c \in Candidates : MasterFeasible(c)} :
            workers' = [workers EXCEPT ![th] =
                          [pc |-> "invoked", context |-> "integer",
                           new |-> NewCuts(cand),
                           seen |-> callback_counter_integer]]
       \/ workers' = [workers EXCEPT ![th] =
                        [pc |-> "invoked", context |-> "general",
                         new |-> {}, seen |-> callback_counter_general]]
    /\ UNCHANGED <<solveVars, bendersVars, history, call>>

\* a plausible slip: the counter written from the value read on entry
StaleIncrement(counter, th) == workers[th].seen + 1

\* the atomic (or lock-protected) increment of a shared counter
AtomicIncrement(counter, th) == counter + 1

\* the thread counts the call in the counter of its context
ThreadCount(th) ==
    /\ workers[th].pc = "invoked"
    /\ IF workers[th].context = "integer"
         THEN /\ callback_counter_integer' =
                   AtomicIncrement(callback_counter_integer, th)
              /\ UNCHANGED callback_counter_general
         ELSE /\ callback_counter_general' =
                   AtomicIncrement(callback_counter_general, th)
              /\ UNCHANGED callback_counter_integer
    /\ workers' = [workers EXCEPT ![th].pc = "counted"]
    /\ UNCHANGED <<solveVars, dataVars, cuts, incumbent, status, cb,
                   callback_counter_integer_success,
                   callback_counter_general_success, total_callback_time,
                   fit_values, direct, history, call>>

\* the thread submits its cuts through the solver, accumulates its time and
\* counts a success if it added a cut, and leaves the callback
ThreadFinish(th) ==
    /\ workers[th].pc = "counted"
    /\ LET ctx == workers[th].context
           new == workers[th].new
           won == new # {}
       IN  /\ cuts' = cuts \cup new
           /\ total_callback_time' =
                IF ctx = "general" THEN Tick("general")
                ELSE IF won
                  THEN [Tick("integer") EXCEPT !.integer_success = @ + 1]
                  ELSE Tick("integer")
           /\ callback_counter_integer_success' =
                IF ctx = "integer" /\ won
                  THEN callback_counter_integer_success + 1
                  ELSE callback_counter_integer_success
           /\ history' =
                IF ctx = "general"
                  THEN [history EXCEPT !.general = @ + 1]
                  ELSE [history EXCEPT
                          !.integer = @ + 1,
                          !.integer_cut = IF won THEN @ + 1 ELSE @]
    /\ workers' = [workers EXCEPT ![th] = IdleWorker]
    /\ UNCHANGED <<solveVars, dataVars, incumbent, status, cb,
                   callback_counter_integer, callback_counter_general,
                   callback_counter_general_success, fit_values, direct,
                   call>>

InitThreads ==
    /\ IdleSolve
    /\ X \in Designs
    /\ t \in {tt \in Assignments : TreatmentsValid(tt)}
    /\ gain \in Gains
    /\ cuts = {}
    /\ incumbent = NoCand
    /\ status = "solving"
    /\ cb = IdleCallback
    /\ InitCounters
    /\ fit_values = NotFitted
    /\ direct = NotFitted
    /\ NoAux

NextThreads ==
    \E th \in Threads :
      \/ ThreadInvoke(th)
      \/ ThreadCount(th)
      \/ ThreadFinish(th)

SpecThreads == InitThreads /\ [][NextThreads]_vars

\* ------------------------------------------------- inconsistent candidates
\* Candidates the solver takes for integral although they break a structural
\* constraint: a solution of the master problem in which the terminal
\* indicator of one terminal node is lost.
BrokenCandidates ==
    {[c EXCEPT !.p[n] = 0] :
       c \in {k \in Candidates : MasterFeasible(k)},
       n \in NodesAndLeaves(DefaultDepth)}
      \ Candidates

\* the solver calls the callback with an inconsistent candidate
CallbackFaulty ==
    /\ status = "solving"
    /\ cb.state = "idle"
    /\ callback_counter_integer < MaxInteger
    /\ \E cand \in BrokenCandidates : OracleInteger(cand)
    /\ UNCHANGED <<solveVars, dataVars, incumbent, fit_values, direct>>
    /\ UNCHANGED auxVars

\* optimize ends with the error of the callback, and fit with it: nothing
\* catches it before the fitted values are read
FitAbort ==
    /\ status = "aborted"
    /\ status' = "raised"
    /\ UNCHANGED <<solveVars, dataVars, cuts, incumbent, cb, counterVars,
                   fit_values, direct>>
    /\ UNCHANGED auxVars

InitFault ==
    /\ InitBenders
    /\ X = <<NoRow, FirstOne>>
    /\ gain = <<1, 1>>

NextFault ==
    \/ CallbackInteger
    \/ CallbackFaulty
    \/ CallbackGeneral
    \/ CallbackReturn
    \/ SolverFinish
    \/ SolverTimeLimit
    \/ FitReadValues
    \/ FitAbort

SpecFault == InitFault /\ [][NextFault]_vars

\* --------------------------------------------------------------------- fit
Estimators == {"FlowOPT_IPW", "BendersOPT_IPW", "FlowOPT_DM", "FlowOPT_DR"}

\* Arguments of fit.  Treatments and propensity weights are real numbers,
\* written in halves: 2 is 1.0, 1 is 0.5.
TwoRow == [f \in Features |-> 2]

\* binary, or with a value other than 0 and 1
XInputs == {<<NoRow, FirstOne>>, <<NoRow, TwoRow>>}

\* {0, 1}; {1, 2}; {0, 2}; {0, 0.5}; three rows
TInputs == {<<0, 2>>, <<2, 4>>, <<0, 4>>, <<0, 1>>, <<0, 2, 0>>}

YInputs == {<<1, 1>>, <<1, 1, 1>>}

\* (1.0, 0.5); (1.0, 1.5); (0, 1.0); three rows
IpwInputs == {<<2, 1>>, <<2, 3>>, <<0, 2>>, <<2, 2, 2>>}

\* one row of estimates per datapoint
YHatInputs == {<<<<1, 1>>, <<1, 1>>>>, <<<<1, 1>>, <<1, 1>>, <<1, 1>>>>}

UsesIpw(est) == est \in {"FlowOPT_IPW", "BendersOPT_IPW", "FlowOPT_DR"}

UsesYHat(est) == est \in {"FlowOPT_DM", "FlowOPT_DR"}

\* a plausible slip: the features checked after the model is built
StepsBinaryLate(est) ==
    <<"_extract_metadata", "check_X_y", "astype", "assert", "check_y">>
      \o (IF UsesIpw(est) THEN <<"check_ipw">> ELSE <<>>)
      \o (IF UsesYHat(est) THEN <<"check_y_hat">> ELSE <<>>)
      \o <<"_create_main_problem", "check_binary", "optimize", "getAttr">>

\* the statements of fit, in order
Steps(est) ==
    <<"_extract_metadata", "check_X_y", "astype", "assert", "check_y">>
      \o (IF UsesIpw(est) THEN <<"check_ipw">> ELSE <<>>)
      \o (IF UsesYHat(est) THEN <<"check_y_hat">> ELSE <<>>)
      \o <<"check_binary", "_create_main_problem", "optimize", "getAttr">>

Validations ==
    {"_extract_metadata", "check_X_y", "astype", "assert", "check_y",
     "check_ipw", "check_y_hat", "check_binary"}

\* t.astype(int) on a real number (in halves): the fraction is dropped
astype(v) == 2 * (v \div 2)

Halved(tt) == [i \in DOMAIN tt |-> tt[i] \div 2]

\* does the statement raise on the arguments of the call c
Raises(step, c) ==
    CASE step = "check_X_y" -> Len(c.args.t) # Len(c.args.X)
      [] step = "assert" -> ~TreatmentsValid(Halved(c.t))
      [] step = "check_y" -> Len(c.args.y) # Len(c.args.X)
      [] step = "check_ipw" ->
           \/ Len(c.args.ipw) # Len(c.args.X)
           \/ \E i \in DOMAIN c.args.ipw :
                c.args.ipw[i] <= 0 \/ c.args.ipw[i] > 2
      [] step = "check_y_hat" -> Len(c.args.y_hat) # Len(c.args.X)
      [] step = "check_binary" ->
           \E i \in DOMAIN c.args.X : \E f \in Features :
             c.args.X[i][f] \notin {0, 1}
      [] OTHER -> FALSE

CurrentStep == Steps(call.est)[call.pc]

InFit ==
    /\ call.est \in Estimators
    /\ call.pc \in 1..Len(Steps(call.est))
    /\ call.raised = "none"

\* FlowOPT_IPW passes four arguments to FlowOPTSingleSink.__init__, which
\* takes five: creating the estimator raises TypeError
Construct ==
    /\ call.est \in Estimators
    /\ call.pc = 0
    /\ call.raised = "none"
    /\ call' = IF call.est = "FlowOPT_IPW"
                 THEN [call EXCEPT !.raised = "__init__"]
                 ELSE [call EXCEPT !.pc = 1]
    /\ UNCHANGED <<solveVars, bendersVars, workers, history>>

\* one validation statement of fit: it raises, or fit goes on
FitValidate ==
    /\ InFit
    /\ CurrentStep \in Validations
    /\ call' = IF Raises(CurrentStep, call)
                 THEN [call EXCEPT !.raised = CurrentStep]
                 ELSE [call EXCEPT
                         !.pc = @ + 1,
                         !.t = IF CurrentStep = "astype"
                                 THEN [i \in DOMAIN @ |-> astype(@[i])]
                                 ELSE @]
    /\ UNCHANGED <<solveVars, bendersVars, workers, history>>

\* self._create_main_problem(); self._model.update()
FitBuild ==
    /\ InFit
    /\ CurrentStep = "_create_main_problem"
    /\ call' = [call EXCEPT !.pc = @ + 1, !.built = TRUE]
    /\ UNCHANGED <<solveVars, bendersVars, workers, history>>

\* self._model.optimize(...)
FitOptimize ==
    /\ InFit
    /\ CurrentStep = "optimize"
    /\ call' = [call EXCEPT !.pc = @ + 1, !.optimized = TRUE]
    /\ UNCHANGED <<solveVars, bendersVars, workers, history>>

\* self.b_value, self.w_value, self.p_value = getAttr("X", ...)
FitGetAttr ==
    /\ InFit
    /\ CurrentStep = "getAttr"
    /\ call' = [call EXCEPT !.pc = @ + 1]
    /\ fit_values' = [set |-> TRUE]
    /\ UNCHANGED <<solveVars, dataVars, cuts, incumbent, status, cb,
                   counterVars, direct, workers, history>>

InitFit ==
    /\ depth = DefaultDepth
    /\ b = ZeroB(depth)
    /\ p = ZeroP(depth)
    /\ assigned = 0
    /\ phase = "fit"
    /\ x = NoRow
    /\ node = 0
    /\ path = <<>>
    /\ NoWeights
    /\ treatments_filter = {}
    /\ NoFlow
    /\ NoBenders
    /\ NoThreads
    /\ \E est \in Estimators, xx \in XInputs, tt \in TInputs, yy \in YInputs,
          ww \in IpwInputs, hh \in YHatInputs :
         call = [est |-> est, pc |-> 0, raised |-> "none", built |-> FALSE,
                 optimized |-> FALSE, t |-> tt,
                 args |-> [X |-> xx, t |-> tt, y |-> yy,
                           ipw |-> IF UsesIpw(est) THEN ww ELSE <<>>,
                           y_hat |-> IF UsesYHat(est) THEN hh ELSE <<>>]]

NextFit ==
    \/ Construct
    \/ FitValidate
    \/ FitBuild
    \/ FitOptimize
    \/ FitGetAttr

SpecFit == InitFit /\ [][NextFit]_vars

\* ------------------------------------------------- one estimator, many calls
\* fit calls made on one estimator
MaxFits == 2

\* the structural constraints with the w constraints under a filter
FilteredSolutions(filt) ==
    LET trees == {bp \in [Nodes(DefaultDepth) \X Features -> {0, 1}]
                           \X [NodesAndLeaves(DefaultDepth) -> {0, 1}] :
                    tree_structure_constraints(bp[1], bp[2], DefaultDepth)}
    IN  UNION {
          {<<bp[1], bp[2], ww>> :
             ww \in {v \in [NodesAndLeaves(DefaultDepth) \X Treatments
                              -> 0..WMax] :
                       \A n \in NodesAndLeaves(DefaultDepth) :
                         WeightConstr(v, bp[2], n, filt)}}
          : bp \in trees }

\* the feasible trees of the master problem, by treatment filter
SolutionsUnder ==
    [filt \in SUBSET Treatments |-> FilteredSolutions(filt)] @@ <<>>

\* b, p, w and g of one call of _define_variables
VariablesPerFit ==
    Cardinality(Nodes(DefaultDepth) \X Features)
      + Cardinality(NodesAndLeaves(DefaultDepth))
      + Cardinality(NodesAndLeaves(DefaultDepth) \X Treatments)
      + Cardinality(Rows)

\* the constraints of one call of _define_constraints
ConstraintsPerFit(filt) ==
    Cardinality(Nodes(DefaultDepth)) + Cardinality(Leaves(DefaultDepth))
      + (IF filt # {} THEN 2 ELSE 1)
          * Cardinality(NodesAndLeaves(DefaultDepth))

EmptyModel == [variables |-> 0, constraints |-> 0]

\* Callback invocations of one solve: none; one that accepts the first
\* candidate; a cut, then an accepted candidate, with a fractional node in
\* between; only a cut.
Profiles ==
    {[integer |-> 0, success |-> 0, general |-> 0],
     [integer |-> 1, success |-> 0, general |-> 0],
     [integer |-> 2, success |-> 1, general |-> 1],
     [integer |-> 1, success |-> 1, general |-> 0]}

\* an incumbent is a candidate that passed the callback without a cut
FindsIncumbent(pr) == pr.integer > pr.success

\* BendersOPT_IPW(depth, time_limit, ..., treatments_filter): the model
\* object is created empty and the counters are set to 0
InitSession ==
    /\ depth = DefaultDepth
    /\ b = ZeroB(depth)
    /\ p = ZeroP(depth)
    /\ assigned = 0
    /\ phase = "session"
    /\ x = NoRow
    /\ node = 0
    /\ path = <<>>
    /\ NoWeights
    /\ treatments_filter \in SUBSET Treatments
    /\ NoFlow
    /\ X = <<NoRow, FirstOne>>
    /\ t = <<0, 1>>
    /\ gain = <<1, 1>>
    /\ cuts = {}
    /\ incumbent = NoCand
    /\ status = "off"
    /\ cb = IdleCallback
    /\ InitCounters
    /\ fit_values = NotFitted
    /\ direct = NotFitted
    /\ NoThreads
    /\ call = [est |-> "BendersOPT_IPW", pc |-> "idle", fits |-> 0,
               solved |-> 0, outcome |-> "none", model |-> EmptyModel,
               predictions |-> <<>>]

\* a fit call whose arguments fail one of the checks of fit: it raises
\* before _create_main_problem
SessionFitRejected ==
    /\ call.pc = "idle"
    /\ call.fits < MaxFits
    /\ call' = [call EXCEPT !.fits = @ + 1, !.outcome = "validation_error",
                            !.predictions = <<>>]
    /\ UNCHANGED <<solveVars, bendersVars, workers, history>>

\* a fit call with valid arguments, up to self._model.update():
\* _create_main_problem adds the variables and the constraints to the model
\* object of the estimator
SessionFitBuild ==
    /\ call.pc = "idle"
    /\ call.fits < MaxFits
    /\ call' = [call EXCEPT
                  !.fits = @ + 1,
                  !.pc = "built",
                  !.outcome = "none",
                  !.predictions = <<>>,
                  !.model = [variables |-> @.variables + VariablesPerFit,
                             constraints |->
                               @.constraints
                                 + ConstraintsPerFit(treatments_filter)]]
    /\ status' = "solving"
    /\ incumbent' = NoCand
    /\ cuts' = {}
    /\ UNCHANGED <<solveVars, dataVars, cb, counterVars, fit_values, direct,
                   workers, history>>

\* the counters and timers after the callback invocations of one solve
Counted(pr) ==
    /\ callback_counter_integer' = callback_counter_integer + pr.integer
    /\ callback_counter_integer_success' =
         callback_counter_integer_success + pr.success
    /\ callback_counter_general' = callback_counter_general + pr.general
    /\ UNCHANGED callback_counter_general_success
    /\ total_callback_time' =
         [integer |-> total_callback_time.integer + pr.integer,
          integer_success |->
            total_callback_time.integer_success + pr.success,
          general |-> total_callback_time.general + pr.general,
          general_success |-> total_callback_time.general_success]

\* self._model.optimize(benders_callback), from its call to its return: the
\* solve ends at the optimum or at the time limit with an incumbent, at the
\* time limit without one, or with the model found infeasible
SessionOptimize ==
    /\ call.pc = "built"
    /\ \E pr \in Profiles :
         /\ Counted(pr)
         /\ IF SolutionsUnder[treatments_filter] = {}
              THEN /\ ~FindsIncumbent(pr)
                   /\ incumbent' = NoCand
                   /\ status' = "infeasible"
              ELSE IF FindsIncumbent(pr)
                THEN /\ \E s \in SolutionsUnder[treatments_filter] :
                          incumbent' = [set |-> TRUE, b |-> s[1],
                                        p |-> s[2], w |-> s[3]]
                     /\ status' \in {"optimal", "time_limit"}
                ELSE /\ incumbent' = NoCand
                     /\ status' = "time_limit"
    /\ call' = [call EXCEPT !.pc = "optimized", !.solved = @ + 1]
    /\ UNCHANGED <<solveVars, dataVars, cuts, cb, fit_values, direct,
                   workers, history>>

\* b_value, w_value, p_value = getAttr("X", ...): without a solution the
\* first getAttr raises and fit ends with that error; otherwise fit returns
SessionGetAttr ==
    /\ call.pc = "optimized"
    /\ IF incumbent = NoCand
         THEN /\ call' = [call EXCEPT !.pc = "idle",
                                      !.outcome = "getAttr_error"]
              /\ UNCHANGED fit_values
         ELSE /\ call' = [call EXCEPT !.pc = "idle", !.outcome = "returned"]
              /\ fit_values' = [set |-> TRUE, b |-> incumbent.b,
                                w |-> incumbent.w, p |-> incumbent.p]
    /\ UNCHANGED <<solveVars, dataVars, cuts, incumbent, status, cb,
                   counterVars, direct, workers, history>>

\* the first treatment of greatest weight at the terminal node of the row
PredictOne(fv, xx) ==
    LET best == Predict(fv.b, fv.p, fv.w, xx)
    IN  CHOOSE k \in best : \A j \in best : k <= j

\* predict(X): check_is_fitted raises unless b_value, w_value and p_value
\* are set; otherwise one treatment per row
SessionPredict ==
    /\ call.pc = "idle"
    /\ \E XX \in Designs :
         call' = IF fit_values = NotFitted
                   THEN [call EXCEPT !.outcome = "NotFittedError",
                                     !.predictions = <<>>]
                   ELSE [call EXCEPT
                           !.outcome = "predicted",
                           !.predictions =
                             [i \in DOMAIN XX |-> PredictOne(fit_values, XX[i])]]
    /\ UNCHANGED <<solveVars, bendersVars, workers, history>>

NextSession ==
    \/ SessionFitRejected
    \/ SessionFitBuild
    \/ SessionOptimize
    \/ SessionGetAttr
    \/ SessionPredict

SpecSession == InitSession /\ [][NextSession]_vars

\* ------------------------------------- building the structural constraints
\* values of the constructor argument treatments_filter: None, an empty
\* list, and lists of treatments
FilterInputs ==
    {[kind |-> "None", items |-> <<>>],
     [kind |-> "list", items |-> <<>>],
     [kind |-> "list", items |-> <<0>>],
     [kind |-> "list", items |-> <<1>>],
     [kind |-> "list", items |-> <<0, 1>>]}

Items(f) == {f.items[i] : i \in DOMAIN f.items}

\* a plausible slip: the filter tested with "is not None"
TruthyNotNone(f) == f.kind # "None"

\* "if self.treatments_filter:" -- None and empty collections are false
Truthy(f) == f.kind # "None" /\ Len(f.items) > 0

\* a constraint: the variables of its left-hand side and its right-hand side
BranchRow(n) ==
    [kind |-> "branch", b |-> {n} \X Features,
     p |-> {n} \cup get_ancestors(n), w |-> {}, rhs |-> <<"const", 1>>]

LeafRow(n) ==
    [kind |-> "leaf", b |-> {}, p |-> {n} \cup get_ancestors(n), w |-> {},
     rhs |-> <<"const", 1>>]

WeightRow(n, K) ==
    [kind |-> "weight", b |-> {}, p |-> {}, w |-> {n} \X K,
     rhs |-> <<"p", n>>]

ZeroRow(n, K) ==
    [kind |-> "weight", b |-> {}, p |-> {}, w |-> {n} \X K,
     rhs |-> <<"const", 0>>]

\* the rows of one addConstrs call over the nodes lo..hi, in order
RowsOver(lo, hi, row) == [k \in 1..(hi - lo + 1) |-> row[lo + k - 1]]

\* the addConstrs calls of _tree_structure_constraints, in order
ConstraintPlan(f, d) ==
    LET NL == 1..(Pow2(d + 1) - 1)
        Branch == [n \in NL |-> BranchRow(n)]
        Leaf == [n \in NL |-> LeafRow(n)]
        Kept == [n \in NL |-> WeightRow(n, Treatments \ Items(f))]
        Dropped == [n \in NL |-> ZeroRow(n, Treatments \cap Items(f))]
        All == [n \in NL |-> WeightRow(n, Treatments)]
    IN  RowsOver(1, Pow2(d) - 1, Branch)
          \o RowsOver(Pow2(d), Pow2(d + 1) - 1, Leaf)
          \o (IF Truthy(f)
                THEN RowsOver(1, Pow2(d + 1) - 1, Kept)
                       \o RowsOver(1, Pow2(d + 1) - 1, Dropped)
                ELSE RowsOver(1, Pow2(d + 1) - 1, All))

\* the formulation without treatment filter
UnfilteredConstraints(d) ==
    LET NL == 1..(Pow2(d + 1) - 1)
        Branch == [n \in NL |-> BranchRow(n)]
        Leaf == [n \in NL |-> LeafRow(n)]
        All == [n \in NL |-> WeightRow(n, Treatments)]
    IN  RowsOver(1, Pow2(d) - 1, Branch)
          \o RowsOver(Pow2(d), Pow2(d + 1) - 1, Leaf)
          \o RowsOver(1, Pow2(d + 1) - 1, All)

InitBuild ==
    /\ depth \in 0..MaxDepth
    /\ b = ZeroB(depth)
    /\ p = ZeroP(depth)
    /\ assigned = 0
    /\ phase = "build"
    /\ x = NoRow
    /\ node = 0
    /\ path = <<>>
    /\ NoWeights
    /\ NoFlow
    /\ NoBenders
    /\ NoThreads
    /\ \E f \in FilterInputs :
         /\ treatments_filter = Items(f)
         /\ call = [est |-> "FlowOPTSingleSink", filter |-> f,
                    constrs |-> <<>>]

\* the model receives the next constraint of _tree_structure_constraints
AddConstr ==
    /\ call.est = "FlowOPTSingleSink"
    /\ Len(call.constrs) < Len(ConstraintPlan(call.filter, depth))
    /\ call' = [call EXCEPT
                  !.constrs =
                    Append(@, ConstraintPlan(call.filter, depth)[Len(@) + 1])]
    /\ UNCHANGED <<solveVars, bendersVars, workers, history>>

NextBuild == AddConstr

SpecBuild == InitBuild /\ [][NextBuild]_vars

\* ------------------------------------------------------- the tree of depth 0
\* the solutions <<b, p, w>> of the structural and w constraints at depth d
SolutionsAt(d) ==
    UNION {
      {<<bp[1], bp[2], ww>> :
         ww \in {v \in [NodesAndLeaves(d) \X Treatments -> 0..WMax] :
                   weight_constraints(v, bp[2], d)}}
      : bp \in {q \in [Nodes(d) \X Features -> {0, 1}]
                        \X [NodesAndLeaves(d) -> {0, 1}] :
                  tree_structure_constraints(q[1], q[2], d)} }

\* a plausible slip: the objective without the coefficient y[i] / ipw[i]
RowValueUnweighted(s, i) == MaxFlow(s[1], s[3], X[i], t[i], depth)

\* z[i,1] * y[i] / ipw[i] at the largest flow of row i under the solution s
RowValue(s, i) == MaxFlow(s[1], s[3], X[i], t[i], depth) * gain[i]

\* sum(z[i,1] * y[i] / ipw[i], i)
FlowObjective(s) == quicksum([i \in Rows |-> RowValue(s, i)], Rows)

\* the solutions the solver can end at
FlowOptimal(d) ==
    {s \in SolutionsAt(d) :
       \A q \in SolutionsAt(d) : FlowObjective(q) <= FlowObjective(s)}

\* two rows, one of each treatment
BothTreatments == {<<0, 1>>, <<1, 0>>}

InitRoot ==
    /\ depth = 0
    /\ b = ZeroB(depth)
    /\ p = ZeroP(depth)
    /\ assigned = 0
    /\ phase = "root"
    /\ x = NoRow
    /\ node = 0
    /\ path = <<>>
    /\ NoWeights
    /\ treatments_filter = {}
    /\ NoFlow
    /\ X \in [{1, 2} -> [Features -> {0, 1}]]
    /\ t \in {tt \in BothTreatments : TreatmentsValid(tt)}
    /\ gain \in Gains
    /\ cuts = {}
    /\ incumbent = NoCand
    /\ status = "solving"
    /\ cb = IdleCallback
    /\ InitCounters
    /\ fit_values = NotFitted
    /\ direct = NotFitted
    /\ NoThreads
    /\ call = [est |-> "FlowOPTSingleSink", predicted |-> <<>>]

\* fit at depth 0: the solver ends at an optimal solution of the flow model
\* and fit reads b, w and p
FitRoot ==
    /\ status = "solving"
    /\ \E s \in FlowOptimal(depth) :
         /\ b' = s[1]
         /\ p' = s[2]
         /\ w' = s[3]
         /\ fit_values' = [set |-> TRUE, b |-> s[1], w |-> s[3], p |-> s[2],
                           obj |-> FlowObjective(s)]
    /\ status' = "optimal"
    /\ UNCHANGED <<depth, assigned, phase, traceVars, wdone,
                   treatments_filter, flowVars, dataVars, cuts, incumbent,
                   cb, counterVars, direct>>
    /\ UNCHANGED auxVars

\* predict on one row
PredictRoot ==
    /\ fit_values # NotFitted
    /\ \E row \in [Features -> {0, 1}] :
         /\ x' = row
         /\ path' = TracePath(1, fit_values.b, fit_values.p, row, depth)
         /\ call' = [call EXCEPT
                       !.predicted = <<PredictOne(fit_values, row)>>]
    /\ UNCHANGED <<structVars, phase, node, weightVars, flowVars,
                   bendersVars, workers, history>>

NextRoot == FitRoot \/ PredictRoot

SpecRoot == InitRoot /\ [][NextRoot]_vars

\* ------------------------------------------------- the 13-row scenario
\* a row of the scenario: its first two features, the others 0
ScenarioRow(x1, x2) ==
    [f \in Features |-> IF f = 1 THEN x1 ELSE IF f = 2 THEN x2 ELSE 0]

\* seven rows [0,0], three rows [1,0], one row [1,1], two rows [0,1]
ScenarioX ==
    [i \in 1..13 |->
       IF i <= 7 THEN ScenarioRow(0, 0)
       ELSE IF i <= 10 THEN ScenarioRow(1, 0)
       ELSE IF i = 11 THEN ScenarioRow(1, 1)
       ELSE ScenarioRow(0, 1)]

\* the labels, in the place of the observed treatments
ScenarioLabels == <<0, 0, 0, 0, 0, 0, 0, 1, 1, 1, 0, 1, 1>>

\* accuracy objective: every row counts 1
ScenarioGain == [i \in 1..13 |-> 1]

\* fit has validated the scenario data and built the master problem
InitScenario ==
    /\ depth = DefaultDepth
    /\ b = ZeroB(depth)
    /\ p = ZeroP(depth)
    /\ assigned = 0
    /\ phase = "scenario"
    /\ x = NoRow
    /\ node = 0
    /\ path = <<>>
    /\ NoWeights
    /\ treatments_filter = {}
    /\ NoFlow
    /\ X = ScenarioX
    /\ t = ScenarioLabels
    /\ gain = ScenarioGain
    /\ cuts = {}
    /\ incumbent = NoCand
    /\ status = "solving"
    /\ cb = IdleCallback
    /\ InitCounters
    /\ fit_values = NotFitted
    /\ direct = NotFitted
    /\ NoAux

\* the candidates that are optimal for the master problem as it stands
BestOf(S) == {c \in S : \A d \in S : Objective(d.g) <= Objective(c.g)}

BestEligible == BestOf(Eligible)

\* the solver solves the master problem as it stands and calls the callback
\* with an optimal solution of it
CallbackBest ==
    /\ status = "solving"
    /\ cb.state = "idle"
    /\ callback_counter_integer < CallBudget
    /\ \E cand \in BestEligible : OracleInteger(cand)
    /\ UNCHANGED <<solveVars, dataVars, incumbent, fit_values, direct>>
    /\ UNCHANGED auxVars

NextScenario ==
    \/ CallbackBest
    \/ CallbackReturn
    \/ SolverFinish
    \/ SolverTimeLimit
    \/ FitReadValues
    \/ FitDirect

SpecScenario == InitScenario /\ [][NextScenario]_vars

\* ------------------------------------- the direct and doubly-robust objectives
\* Coefficients are rational numbers <<numerator, denominator>>.
RatAdd(q, r) == <<q[1] * r[2] + r[1] * q[2], q[2] * r[2]>>

RatSub(q, r) == <<q[1] * r[2] - r[1] * q[2], q[2] * r[2]>>

RatDiv(q, r) == <<q[1] * r[2], q[2] * r[1]>>

Whole(v) == <<v, 1>>

ObjectiveEstimators == {"FlowOPT_DM", "FlowOPT_DR"}

\* observed outcomes of the two rows
ObjectiveY == {<<1, 0>>, <<0, 2>>}

\* estimated outcomes: one row per datapoint, one column per treatment
ObjectiveYHat ==
    {<<<<0, 1>>, <<1, 0>>>>, <<<<1, 1>>, <<2, 0>>>>, <<<<0, 0>>, <<1, 2>>>>}

\* propensity weights in (0, 1]
ObjectiveIpw == {<<<<1, 1>>, <<1, 2>>>>, <<<<1, 2>>, <<2, 3>>>>}

\* the keys of zeta of the multiple-sink formulation
ZetaKeys(d) == {1, 2} \X NodesAndLeaves(d) \X Treatments

\* for i in datapoints: for n in Nodes + Leaves: for k in treatments
LoopKeys(d) ==
    LET perRow == Cardinality(NodesAndLeaves(d)) * Cardinality(Treatments)
        perNode == Cardinality(Treatments)
    IN  [j \in 1..(2 * perRow) |->
           <<((j - 1) \div perRow) + 1,
             (((j - 1) % perRow) \div perNode) + 1,
             (j - 1) % perNode>>]

\* obj.add(var * c): the coefficient of var grows by c
LinExprAdd(obj, key, c) ==
    IF key \in DOMAIN obj
      THEN [obj EXCEPT ![key] = RatAdd(@, c)]
      ELSE [kk \in DOMAIN obj \cup {key} |->
              IF kk = key THEN c ELSE obj[kk]]

\* a plausible slip: the correction added for every treatment
ObservedAny(tt, i, k) == TRUE

\* "if self._t[i] == int(k):"
Observed(tt, i, k) == tt[i] = k

InitObjective ==
    /\ depth \in 0..FlowDepth
    /\ b = ZeroB(depth)
    /\ p = ZeroP(depth)
    /\ assigned = 0
    /\ phase = "objective"
    /\ x = NoRow
    /\ node = 0
    /\ path = <<>>
    /\ NoWeights
    /\ treatments_filter = {}
    /\ NoFlow
    /\ X = <<NoRow, FirstOne>>
    /\ t \in BothTreatments
    /\ gain = <<>>
    /\ cuts = {}
    /\ incumbent = NoCand
    /\ status = "off"
    /\ cb = IdleCallback
    /\ InitCounters
    /\ fit_values = NotFitted
    /\ direct = NotFitted
    /\ NoThreads
    /\ \E est \in ObjectiveEstimators, yy \in ObjectiveY,
          hh \in ObjectiveYHat, ww \in ObjectiveIpw :
         call = [est |-> est, y |-> yy, y_hat |-> hh,
                 ipw |-> IF UsesIpw(est) THEN ww ELSE <<>>,
                 declared |-> ZetaKeys(depth),
                 obj |-> <<>>, pos |-> 1, stage |-> "direct",
                 raised |-> "none", objective |-> "none"]

InLoop ==
    /\ phase = "objective"
    /\ call.raised = "none"
    /\ call.pos \in DOMAIN LoopKeys(depth)

\* obj.add(self._zeta[i, n, k] * (self._y_hat[i][int(k)]))
AddDirectTerm ==
    /\ InLoop
    /\ call.stage = "direct"
    /\ LET key == LoopKeys(depth)[call.pos]
           i == key[1]
           k == key[3]
       IN  call' =
             IF key \notin call.declared
               THEN [call EXCEPT !.raised = "KeyError"]
               ELSE [call EXCEPT
                       !.obj = LinExprAdd(@, key, Whole(call.y_hat[i][k + 1])),
                       !.stage = IF call.est = "FlowOPT_DR"
                                   THEN "correction" ELSE "direct",
                       !.pos = IF call.est = "FlowOPT_DR" THEN @ ELSE @ + 1]
    /\ UNCHANGED <<solveVars, bendersVars, workers, history>>

\* if self._t[i] == int(k):
\*     obj.add(self._zeta[i, n, k] * (self._y[i] - self._y_hat[i][int(k)])
\*             / self._ipw[i])
AddCorrection ==
    /\ InLoop
    /\ call.stage = "correction"
    /\ LET key == LoopKeys(depth)[call.pos]
           i == key[1]
           k == key[3]
           c == RatDiv(RatSub(Whole(call.y[i]), Whole(call.y_hat[i][k + 1])),
                       call.ipw[i])
       IN  call' = [call EXCEPT
                      !.obj = IF Observed(t, i, k)
                                THEN LinExprAdd(@, key, c) ELSE @,
                      !.stage = "direct",
                      !.pos = @ + 1]
    /\ UNCHANGED <<solveVars, bendersVars, workers, history>>

\* self._model.setObjective(obj, GRB.MAXIMIZE)
SetObjective ==
    /\ phase = "objective"
    /\ call.raised = "none"
    /\ call.pos = Len(LoopKeys(depth)) + 1
    /\ call.objective = "none"
    /\ call' = [call EXCEPT !.objective = "MAXIMIZE"]
    /\ UNCHANGED <<solveVars, bendersVars, workers, history>>

NextObjective == AddDirectTerm \/ AddCorrection \/ SetObjective

SpecObjective == InitObjective /\ [][NextObjective]_vars

\* ------------------------------------------ the solve loop to its end
\* optimize() with a time limit that does not expire
\* y[i] / ipw[i] of the two rows: zero for the first row, or equal
LoopGains == {<<0, 1>>, <<1, 1>>}

InitLoop ==
    /\ depth = DefaultDepth
    /\ b = ZeroB(depth)
    /\ p = ZeroP(depth)
    /\ assigned = 0
    /\ phase = "loop"
    /\ x = NoRow
    /\ node = 0
    /\ path = <<>>
    /\ NoWeights
    /\ treatments_filter = {}
    /\ NoFlow
    /\ X = <<NoRow, FirstOne>>
    /\ t \in {tt \in Assignments : TreatmentsValid(tt)}
    /\ gain \in LoopGains
    /\ cuts = {}
    /\ incumbent = NoCand
    /\ status = "solving"
    /\ cb = IdleCallback
    /\ InitCounters
    /\ fit_values = NotFitted
    /\ direct = NotFitted
    /\ NoAux

NextLoop ==
    \/ CallbackInteger
    \/ CallbackGeneral
    \/ CallbackReturn
    \/ SolverFinish
    \/ FitReadValues

\* the solver has an integral candidate to call the callback with
CanPropose ==
    /\ status = "solving"
    /\ cb.state = "idle"
    /\ callback_counter_integer < CallBudget
    /\ Eligible # {}

\* the search is over: the incumbent is optimal
CanFinish ==
    /\ status = "solving"
    /\ cb.state = "idle"
    /\ incumbent # NoCand
    /\ Eligible = {}

\* Every callback returns and fit goes on when optimize() has returned
\* (weak fairness of CallbackReturn and FitReadValues); the solver does not
\* idle for ever while it has a candidate to propose or while its search
\* is over, which is weak fairness of CallbackInteger and of SolverFinish
\* written with their guards.
SpecLoop ==
    /\ InitLoop
    /\ [][NextLoop]_vars
    /\ WF_vars(CallbackReturn)
    /\ WF_vars(FitReadValues)
    /\ ([]<>(~CanPropose) \/ []<>(cb.state # "idle"))
    /\ ([]<>(~CanFinish) \/ []<>(status # "solving"))

\* ------------------------------------------------------------------ claims
Complete == phase # "assign"

Branches(n) == SumB(b, n) = 1

TerminalAncestors(n) == {m \in get_ancestors(n) : p[m] = 1}

ExactlyOne(A, B, C) ==
    \/ A /\ ~B /\ ~C
    \/ ~A /\ B /\ ~C
    \/ ~A /\ ~B /\ C

\* C1: in every binary solution of the structural constraints each internal
\* node is in exactly one of three states (branches on exactly one feature,
\* is terminal, has exactly one terminal strict ancestor); every root-to-leaf
\* path holds exactly one node with p = 1, and no node at or below a terminal
\* node branches.
C1_ExactlyOneNodeState ==
    Complete =>
      /\ \A n \in Nodes(depth) :
           /\ SumB(b, n) \in {0, 1}
           /\ Cardinality(TerminalAncestors(n)) \in {0, 1}
           /\ ExactlyOne(Branches(n), p[n] = 1,
                         Cardinality(TerminalAncestors(n)) = 1)
      /\ \A l \in Leaves(depth) :
           Cardinality({m \in get_ancestors(l) \cup {l} : p[m] = 1}) = 1
      /\ \A n \in NodesAndLeaves(depth) :
           p[n] = 1 =>
             \A m \in Nodes(depth) :
               (m = n \/ n \in get_ancestors(m)) => SumB(b, m) = 0

\* a depth-2 solution that shows all three states: the root branches, node 2
\* is terminal, node 3 branches, and the leaves below node 2 are dominated
C1_Witness ==
    /\ Complete
    /\ depth = 2
    /\ Branches(1)
    /\ p[2] = 1
    /\ Branches(3)
    /\ TerminalAncestors(4) = {2}

\* C2: over every binary solution of the structural constraints the trace of
\* every binary datapoint stops at exactly one terminal node, at depth at
\* most d, and never arrives at a node with neither a selected feature nor
\* p = 1.
C2_TraceReachesOneTerminal ==
    /\ phase # "stuck"
    /\ phase = "trace" => node \in NodesAndLeaves(depth)
    /\ phase = "terminal" =>
         /\ node = path[Len(path)]
         /\ p[node] = 1
         /\ NodeDepth(node) <= depth
         /\ Cardinality({k \in 1..Len(path) : p[path[k]] = 1}) = 1

\* a datapoint routed right at the root and left at node 3, down to leaf 6
C2_Witness ==
    /\ phase = "terminal"
    /\ depth = 2
    /\ path = <<1, 3, 6>>

SumZeta == quicksum(zeta, NodesAndLeaves(depth))

\* C3 as stated: in every solution of the single-sink flow model the zeta of
\* a datapoint sum to 1 over all nodes and leaves.
C3_SumZetaIsOne == phase = "flowed" => SumZeta = Scale

\* C3 amended: the zeta of a datapoint sum to at most 1 and to exactly the
\* root flow; the sum is positive only if some terminal node gives weight to
\* the datapoint's own treatment, and the zero flow is always a solution.
C3_SumZetaAtMostOne ==
    phase = "flowed" =>
      /\ SumZeta <= Scale
      /\ SumZeta = z[1]
      /\ SumZeta > 0 =>
           \E n \in NodesAndLeaves(depth) : p[n] = 1 /\ w[<<n, ti>>] > 0

\* a solution that routes a full unit to a leaf, and one that routes half
C3_Witness ==
    /\ phase = "flowed"
    /\ SumZeta = Scale
    /\ zeta[3] = Scale

\* --------------------------------------------------------- claims C4 - C7
BothFitted == fit_values # NotFitted /\ direct # NotFitted

\* C4 as stated: once both estimators are fitted on the same data and depth,
\* the Benders solve having ended at its optimum, their objective values
\* are equal and they predict the same treatment on every training row.
C4_SameObjectiveAndPredictions ==
    BothFitted /\ status = "optimal" =>
      /\ fit_values.obj = direct.obj
      /\ \A i \in Rows :
           Predict(fit_values.b, fit_values.p, fit_values.w, X[i])
             = direct.predictions[i]

\* C4 amended: once both estimators are fitted on the same data and depth,
\* the Benders solve having ended at its optimum, their objective values are equal, and the tree the Benders estimator
\* returns is an optimal solution of the direct model (it attains that value
\* there); the predictions need not agree when the optimum is not unique.
C4_SameObjective ==
    BothFitted /\ status = "optimal" =>
      /\ fit_values.obj = direct.obj
      /\ DirectObjective(<<fit_values.b, fit_values.p, fit_values.w>>)
           = direct.obj

C4_Witness ==
    /\ BothFitted
    /\ status = "optimal"
    /\ fit_values.obj = direct.obj
    /\ direct.obj = 2 * Scale
    /\ cuts # {}
    /\ callback_counter_integer_success >= 1

\* C5: every cut the oracle adds is valid: under every solution
\* (b, p, w) of the structural constraints, the cut of row i holds when g[i]
\* is the true subproblem value of i (the largest flow of i in the flow
\* model); hence the optimal solutions of the direct model, with g at the
\* true values, satisfy every cut.
C5_CutsAreValid ==
    \A c \in cb.added : \A s \in StructSolutions :
      FlowValue[<<s, X[c.i], t[c.i]>>] <= CutRHS(c, s[1], s[3])

C5_Witness ==
    /\ Cardinality(cuts) >= 3
    /\ Cardinality(cb.added) = 2
    /\ \E c \in cb.added : \E s \in StructSolutions :
         /\ FlowValue[<<s, X[c.i], t[c.i]>>] = Scale
         /\ CutRHS(c, s[1], s[3]) = Scale
    /\ \E c \in cb.added : c.left # {} /\ c.right = {}
    /\ \E c \in cb.added : c.right # {} /\ c.left = {}

IntegerOutcome(st) == cb.context = "integer" /\ cb.state = st

\* C6: in the integer context a cut is added for row i only if g[i] exceeds
\* the recomputed subproblem value of i (which is the true value of i in the
\* flow model); an invocation where no g[i] over-estimates ends in the no-op
\* state, adding no cut and leaving the success counter unchanged.
C6_CutsOnlyWhenViolated ==
    /\ [](IntegerOutcome("cut-added") =>
            /\ cb.added # {}
            /\ \A c \in cb.added :
                 /\ cb.cand.g[c.i] > benders_subproblem(cb.cand, c.i).value
                 /\ cb.cand.g[c.i] >
                      FlowValue[<<<<cb.cand.b, cb.cand.p, cb.cand.w>>,
                                  X[c.i], t[c.i]>>])
    /\ [](IntegerOutcome("no-op") =>
            /\ cb.added = {}
            /\ \A i \in Rows :
                 cb.cand.g[i] <= benders_subproblem(cb.cand, i).value)
    /\ [][cb'.context = "integer" /\ cb.state = "idle" =>
            /\ cuts' = cuts \cup cb'.added
            /\ (\A i \in Rows : cb'.cand.g[i]
                                  <= benders_subproblem(cb'.cand, i).value)
                 => /\ cb'.state = "no-op"
                    /\ cuts' = cuts
                    /\ callback_counter_integer_success'
                         = callback_counter_integer_success]_vars

C6_Witness ==
    /\ IntegerOutcome("no-op")
    /\ cuts # {}
    /\ callback_counter_integer_success >= 1
    /\ \E i \in Rows : cb.cand.g[i] = 0

CounterValues ==
    <<callback_counter_integer, callback_counter_integer_success,
      callback_counter_general, callback_counter_general_success>>

\* C7: the success counters never exceed the call counters; the four
\* counters start at 0 and never decrease; an invocation changes only the
\* counters of its own context.
C7_CounterInvariant ==
    /\ CounterValues = <<0, 0, 0, 0>>
    /\ [](/\ callback_counter_integer_success <= callback_counter_integer
          /\ callback_counter_general_success <= callback_counter_general)
    /\ [][/\ \A k \in 1..4 : CounterValues'[k] >= CounterValues[k]
          /\ (cb'.context = "integer" /\ cb.state = "idle") =>
               /\ callback_counter_integer' = callback_counter_integer + 1
               /\ callback_counter_general' = callback_counter_general
               /\ callback_counter_general_success'
                    = callback_counter_general_success
          /\ (cb'.context = "general" /\ cb.state = "idle") =>
               /\ callback_counter_general' = callback_counter_general + 1
               /\ callback_counter_integer' = callback_counter_integer
               /\ callback_counter_integer_success'
                    = callback_counter_integer_success
          /\ cb'.context = "none" => CounterValues' = CounterValues]_vars

C7_Witness ==
    /\ status = "optimal"
    /\ callback_counter_integer >= 3
    /\ callback_counter_integer_success >= 2
    /\ callback_counter_integer_success < callback_counter_integer
    /\ callback_counter_general = MaxGeneral

\* ----------------------------------------------------------------- claim C8
AllCompleted == \A th \in Threads : workers[th].pc = "idle"

Stopped == status \in {"aborted", "raised"}

TraceFails(cand, i) == TraceFailed(TracePath(1, cand.b, cand.p, X[i], depth))

\* C9: a callback invocation in which the trace of some row finds no
\* terminal node ends in the error state and aborts the solve: no other
\* outcome is reached with such a row (the row is not skipped), the
\* invocation adds no cut, and once the solve is aborted no cut is added, no
\* callback is processed and no fitted value is set.
C9_ErrorAbortsSolve ==
    /\ [](cb.context = "integer" /\ (\E i \in Rows : TraceFails(cb.cand, i))
            => /\ cb.state = "error"
               /\ cb.added = {}
               /\ Stopped)
    /\ [](Stopped => cb.state = "error" /\ fit_values = NotFitted)
    /\ [][Stopped =>
            /\ cuts' = cuts
            /\ cb' = cb
            /\ CounterValues' = CounterValues
            /\ incumbent' = incumbent
            /\ fit_values' = fit_values
            /\ Stopped']_vars

C9_Witness ==
    /\ status = "raised"
    /\ cb.state = "error"
    /\ cuts # {}
    /\ incumbent # NoCand
    /\ \E i \in Rows : TraceFails(cb.cand, i)
    /\ \E i \in Rows :
         /\ ~TraceFails(cb.cand, i)
         /\ cb.cand.g[i] > benders_subproblem(cb.cand, i).value

\* ---------------------------------------------------------------- claim C10
RowMismatch(c) ==
    \/ Len(c.args.t) # Len(c.args.X)
    \/ Len(c.args.y) # Len(c.args.X)
    \/ UsesIpw(c.est) /\ Len(c.args.ipw) # Len(c.args.X)

\* the treatment values given are exactly 0, 1, ..., K-1 (in halves)
TreatmentsExact(tt) ==
    LET vals == {tt[i] : i \in DOMAIN tt}
    IN  vals = {2 * k : k \in 0..(Cardinality(vals) - 1)}

WeightOutside(c) ==
    UsesIpw(c.est) /\ \E i \in DOMAIN c.args.ipw :
                        c.args.ipw[i] <= 0 \/ c.args.ipw[i] > 2

NotBinary(c) ==
    \E i \in DOMAIN c.args.X : \E f \in Features : c.args.X[i][f] \notin {0, 1}

InputError(c) ==
    \/ RowMismatch(c)
    \/ ~TreatmentsExact(c.args.t)
    \/ WeightOutside(c)
    \/ NotBinary(c)

NothingBuilt ==
    /\ ~call.built
    /\ ~call.optimized
    /\ fit_values = NotFitted

\* C10 as stated: in fit of every prescriptive estimator, an input with a
\* row-count mismatch, treatment values that are not exactly {0, ..., K-1},
\* a propensity weight outside (0,1] or a feature value other than 0 or 1
\* is rejected before _create_main_problem runs: no variable or constraint
\* is added, the solver is not invoked and the fitted values are not set.
C10_InputErrorsRaisedBeforeBuild ==
    (call.est \in Estimators /\ InputError(call)) => NothingBuilt

\* the input errors that remain once t is converted to int
ConvertedInputError(c) ==
    \/ RowMismatch(c)
    \/ ~TreatmentsValid(Halved(c.args.t))
    \/ WeightOutside(c)
    \/ NotBinary(c)

\* C10, the part that holds of the code: a fit that raises in one of its
\* validation statements has built nothing, and an input whose error remains
\* after the conversion of t to int never reaches _create_main_problem.
C10_FailedValidationBuildsNothing ==
    call.est \in Estimators =>
      /\ call.raised \in Validations => NothingBuilt
      /\ ConvertedInputError(call) => NothingBuilt

C10_Witness ==
    /\ call.est = "FlowOPT_DR"
    /\ call.raised = "check_binary"
    /\ NothingBuilt

\* ---------------------------------------------------------------- claim C11
Finished(c) == c.raised # "none" \/ c.pc > Len(Steps(c.est))

\* everything but the feature matrix is valid
OtherwiseValid(c) ==
    /\ ~RowMismatch(c)
    /\ TreatmentsExact(c.args.t)
    /\ ~WeightOutside(c)
    /\ UsesYHat(c.est) => Len(c.args.y_hat) = Len(c.args.X)

\* C11 as stated: constructing FlowOPT_IPW with depth and time_limit only
\* succeeds, and fit on it with a feature value other than 0 or 1 and
\* otherwise valid t, y and ipw ends with the assertion error of
\* check_binary.
C11_ConstructThenRejectNonBinary ==
    call.est = "FlowOPT_IPW" =>
      /\ call.raised # "__init__"
      /\ (Finished(call) /\ NotBinary(call) /\ OtherwiseValid(call))
           => call.raised = "check_binary"

\* C11, the part that holds of the code: the constructor of FlowOPT_IPW
\* raises, so that no fit is ever entered on it; on the estimators that can
\* be constructed, a fit with a feature value other than 0 or 1 and
\* otherwise valid arguments ends with the error of check_binary.
C11_ConstructorRaises ==
    /\ call.est = "FlowOPT_IPW" =>
         /\ call.pc = 0
         /\ NothingBuilt
         /\ call.raised \in {"none", "__init__"}
    /\ (/\ call.est \in Estimators \ {"FlowOPT_IPW"}
        /\ Finished(call) /\ NotBinary(call) /\ OtherwiseValid(call))
         => call.raised = "check_binary"

C11_Witness ==
    /\ call.est = "FlowOPT_IPW"
    /\ call.raised = "__init__"
    /\ NotBinary(call)
    /\ OtherwiseValid(call)

\* ---------------------------------------------------------------- claim C12
FreshModel ==
    [variables |-> VariablesPerFit,
     constraints |-> ConstraintsPerFit(treatments_filter)]

\* the counters a fresh estimator can show after one fit
FreshCounters ==
    {<<pr.integer, pr.success, pr.general, 0>> : pr \in Profiles}

\* C12 as stated: in any sequence of fit calls on one estimator each fit
\* starts with the callback counters and timers at 0 and with a model that
\* holds the variables and constraints of this fit only, so that the model
\* and the counters after the k-th fit are those of a fresh estimator fitted
\* once.
C12_EachFitStartsFresh ==
    /\ call.pc = "built" =>
         /\ CounterValues = <<0, 0, 0, 0>>
         /\ total_callback_time = NoTime
         /\ call.model = FreshModel
    /\ (call.pc = "idle" /\ call.outcome = "returned") =>
         /\ CounterValues \in FreshCounters
         /\ call.model = FreshModel

\* C12, the part that holds of the code: the first fit of an estimator
\* starts with the counters and timers at 0 and an empty model, and one fit
\* adds the variables and constraints once; every later fit adds them again
\* to the same model and goes on from the counters the earlier fits left.
C12_FirstFitStartsFresh ==
    /\ (call.pc = "built" /\ call.solved = 0) =>
         /\ CounterValues = <<0, 0, 0, 0>>
         /\ total_callback_time = NoTime
         /\ call.model = FreshModel
    /\ call.model.variables =
         VariablesPerFit * (call.solved + IF call.pc = "built" THEN 1 ELSE 0)
    /\ call.model.constraints =
         ConstraintsPerFit(treatments_filter)
           * (call.solved + IF call.pc = "built" THEN 1 ELSE 0)

\* a second fit about to solve: the counters of the first fit are still
\* there and the model holds the variables twice
C12_Witness ==
    /\ call.pc = "built"
    /\ call.solved = 1
    /\ fit_values # NotFitted
    /\ callback_counter_integer = 2
    /\ callback_counter_integer_success = 1
    /\ call.model.variables = 2 * VariablesPerFit

\* ---------------------------------------------------------------- claim C13
\* the last call was a fit that went through optimize
FitEnded ==
    /\ call.pc = "idle"
    /\ call.outcome \in {"returned", "getAttr_error", "no_feasible_tree"}

HoldsIncumbent ==
    /\ fit_values # NotFitted
    /\ fit_values.b = incumbent.b
    /\ fit_values.w = incumbent.w
    /\ fit_values.p = incumbent.p

\* C13 as stated: a solve that ends at the time limit with an incumbent
\* makes fit return with the incumbent's b, w and p; a solve that ends with
\* no incumbent (time limit before any feasible tree, or infeasible model)
\* makes fit report "no feasible tree found within the time limit" instead
\* of raising while it reads the fitted values.
C13_SolverOutcomesNeverCrashFit ==
    FitEnded =>
      IF incumbent # NoCand
        THEN call.outcome = "returned" /\ HoldsIncumbent
        ELSE call.outcome = "no_feasible_tree"

\* C13, the part that holds of the code: with an incumbent, at the optimum
\* or at the time limit, fit returns with the incumbent's b, w and p; with
\* no incumbent fit ends with the error of getAttr.
C13_IncumbentIsReturned ==
    FitEnded =>
      IF incumbent # NoCand
        THEN call.outcome = "returned" /\ HoldsIncumbent
        ELSE call.outcome = "getAttr_error"

C13_Witness ==
    /\ FitEnded
    /\ status = "time_limit"
    /\ incumbent # NoCand
    /\ call.outcome = "returned"
    /\ HoldsIncumbent

\* ---------------------------------------------------------------- claim C14
IsFitted == fit_values # NotFitted

\* some fit has run the solve to its end
SolveEnded == call.solved >= 1

OnePerRow ==
    /\ Len(call.predictions) = Cardinality(Rows)
    /\ \A i \in DOMAIN call.predictions : call.predictions[i] \in Treatments

\* C14 as stated: in any sequence of fit and predict calls the fitted values
\* are present on the estimator exactly when some fit has run the solve to
\* its end; predict returns one treatment per row in that state and fails
\* with a not-fitted error in every earlier state, including after a fit
\* that failed validation.
C14_FittedExactlyAfterSolve ==
    /\ IsFitted => SolveEnded
    /\ (call.pc = "idle" /\ SolveEnded) => IsFitted
    /\ call.outcome = "predicted" => SolveEnded /\ OnePerRow
    /\ call.outcome = "NotFittedError" => ~SolveEnded

\* C14, the part that holds of the code: the fitted values are present only
\* after some solve has ended, and from the first fit that returns on; they
\* are absent before, after a fit that failed validation and after a fit
\* whose solve ended without a solution; predict returns one treatment per
\* row exactly when they are present and fails with a not-fitted error
\* otherwise.
C14_FittedOnlyAfterSolve ==
    /\ [](/\ IsFitted => SolveEnded
          /\ call.outcome = "returned" => IsFitted
          /\ call.outcome = "predicted" => IsFitted /\ OnePerRow
          /\ call.outcome = "NotFittedError" => ~IsFitted)
    /\ [][IsFitted => IsFitted']_vars

\* a fit that failed validation, a fit that returned, then a prediction
\* that tells the rows apart
C14_Witness ==
    /\ call.outcome = "predicted"
    /\ call.fits = 2
    /\ call.solved = 1
    /\ OnePerRow
    /\ call.predictions[1] # call.predictions[2]

\* ---------------------------------------------------------------- claim C15
\* the nodes whose w the solver has fixed
Weighted == {n \in NodesAndLeaves(depth) : n <= wdone}

\* C15: with a treatment filter F every solution of the structural
\* constraints has, at every node and leaf n, the w[n,k] of the treatments
\* outside F summing to p[n] and w[n,k] = 0 for each k in F; without a
\* filter the w[n,k] of all treatments sum to p[n]; in both cases a node
\* with p[n] = 0 carries no weight.
C15_WeightsFollowTerminalIndicator ==
    \A n \in Weighted :
      /\ treatments_filter # {} =>
           /\ SumW(w, n, Treatments \ treatments_filter) = Scale * p[n]
           /\ \A k \in treatments_filter : w[<<n, k>>] = 0
      /\ treatments_filter = {} => SumW(w, n, Treatments) = Scale * p[n]
      /\ p[n] = 0 => \A k \in Treatments : w[<<n, k>>] = 0

\* under the filter {0} a terminal leaf gives all its weight to treatment 1
\* and the branching root none
C15_Witness ==
    /\ phase = "weighted"
    /\ treatments_filter = {0}
    /\ p[1] = 0
    /\ p[2] = 1
    /\ w[<<2, 1>>] = Scale
    /\ w[<<2, 0>>] = 0
    /\ w[<<1, 1>>] = 0

\* ---------------------------------------------------------------- claim C16
BuildDone == Len(call.constrs) = Len(ConstraintPlan(call.filter, depth))

EmptyFilter(f) == f.kind = "None" \/ f.items = <<>>

\* C16: with an empty treatment filter (an empty collection or None) the
\* structural constraints built are exactly those of the unfiltered
\* formulation: the same constraints in the same order, none of them a
\* "sum over filtered treatments = 0" constraint.
C16_EmptyFilterIsUnfiltered ==
    EmptyFilter(call.filter) =>
      /\ BuildDone => call.constrs = UnfilteredConstraints(depth)
      /\ Len(call.constrs) <= Len(UnfilteredConstraints(depth))
      /\ \A k \in DOMAIN call.constrs :
           /\ call.constrs[k] = UnfilteredConstraints(depth)[k]
           /\ call.constrs[k].rhs # <<"const", 0>>

\* the constraints of a depth-2 tree built with the empty list as filter
C16_Witness ==
    /\ BuildDone
    /\ depth = 2
    /\ call.filter = [kind |-> "list", items |-> <<>>]
    /\ call.constrs = UnfilteredConstraints(depth)
    /\ call.constrs # <<>>

\* ---------------------------------------------------------------- claim C17
\* the node at which the datapoint's path ends under b and p
PathEnd == Last(TracePath(1, b, p, x, depth))

\* C17: in every feasible solution of the single-sink flow model a
\* datapoint's flow is absorbed only where its own treatment is assigned:
\* zeta[i,n] > 0 implies p[n] = 1 and w[n,t[i]] > 0, and
\* zeta[i,n] <= w[n,t[i]] <= 1; a datapoint whose path ends at a terminal
\* node that puts all its weight on a treatment other than t[i] has zero
\* flow at the root.
C17_AbsorbedOnlyAtOwnTreatment ==
    phase = "flowed" =>
      /\ \A n \in NodesAndLeaves(depth) :
           /\ zeta[n] > 0 => p[n] = 1 /\ w[<<n, ti>>] > 0
           /\ zeta[n] <= w[<<n, ti>>]
           /\ w[<<n, ti>>] <= Scale
      /\ (\E k \in Treatments \ {ti} : w[<<PathEnd, k>>] = Scale)
           => z[1] = 0

\* a datapoint of treatment 0 routed to leaf 3, which prescribes treatment
\* 1, while leaf 2 prescribes treatment 0
C17_Witness ==
    /\ phase = "flowed"
    /\ ti = 0
    /\ PathEnd = 3
    /\ w[<<3, 1>>] = Scale
    /\ w[<<2, 0>>] = Scale
    /\ z[1] = 0

\* ---------------------------------------------------------------- claim C18
\* the nodes on the path the datapoint follows under b and p
OnPath ==
    LET pth == TracePath(1, b, p, x, depth)
    IN  {pth[k] : k \in DOMAIN pth}

LeftOpen(n) == LeftCapacity(b, x, n) > 0

RightOpen(n) == RightCapacity(b, x, n) > 0

\* C18: in every feasible solution of the single-sink flow model with
\* integral b and binary features, z[i,left(n)] > 0 implies that n selects
\* a feature f with x[i,f] = 0 and z[i,right(n)] > 0 that n selects a
\* feature f with x[i,f] = 1; at a branching node exactly one of the two
\* child arcs is open for the datapoint; so z[i,m] > 0 only for nodes m on
\* the path that x_i follows under b.
C18_FlowFollowsOwnRoute ==
    phase = "flowed" =>
      /\ \A n \in Nodes(depth) :
           /\ z[get_left_children(n)] > 0 =>
                \E f \in Selected(b, n) : x[f] = 0
           /\ z[get_right_children(n)] > 0 =>
                \E f \in Selected(b, n) : x[f] = 1
           /\ Branches(n) => (LeftOpen(n) /\ ~RightOpen(n))
                               \/ (~LeftOpen(n) /\ RightOpen(n))
      /\ \A m \in NodesAndLeaves(depth) : z[m] > 0 => m \in OnPath

\* a full unit of flow of a datapoint with x[1] = 1 through the right arc
\* of a root that branches on feature 1
C18_Witness ==
    /\ phase = "flowed"
    /\ b[<<1, 1>>] = 1
    /\ x = FirstOne
    /\ z[1] = Scale
    /\ z[3] = Scale
    /\ z[2] = 0

\* ---------------------------------------------------------------- claim C19
\* what is gained by prescribing treatment k to every row
TreatmentValue(k) ==
    quicksum([i \in Rows |-> IF t[i] = k THEN Scale * gain[i] ELSE 0], Rows)

BestTreatments ==
    {k \in Treatments : \A j \in Treatments :
                          TreatmentValue(j) <= TreatmentValue(k)}

\* the treatment the fitted tree prescribes for each of the binary rows
Prescribed ==
    {PredictOne(fit_values, row) : row \in [Features -> {0, 1}]}

\* C19: at depth 0 the tree has no internal node and one leaf, node 1, with
\* no ancestor; the structural constraints force p[1] = 1, there is no
\* branching variable, every datapoint terminates at the root, and the
\* fitted tree gives every row the same prediction, a treatment of best
\* objective value.
C19_DepthZeroIsConstant ==
    /\ depth = 0
    /\ Nodes(depth) = {}
    /\ Leaves(depth) = {1}
    /\ get_ancestors(1) = {}
    /\ DOMAIN b = {}
    /\ \A s \in SolutionsAt(depth) : s[2][1] = 1
    /\ fit_values # NotFitted =>
         /\ p[1] = 1
         /\ \A row \in [Features -> {0, 1}] :
              TracePath(1, b, p, row, depth) = <<1>>
         /\ Cardinality(Prescribed) = 1
         /\ Prescribed \subseteq BestTreatments
         /\ fit_values.obj = TreatmentValue(PredictOne(fit_values, NoRow))
    /\ call.predicted # <<>> =>
         /\ path = <<1>>
         /\ call.predicted[1] \in BestTreatments

\* rows that differ, the second with the larger gain: every row is given
\* the treatment of the second
C19_Witness ==
    /\ fit_values # NotFitted
    /\ X[1] # X[2]
    /\ gain = <<1, 2>>
    /\ t = <<0, 1>>
    /\ x = FirstOne
    /\ call.predicted = <<1>>
    /\ BestTreatments = {1}

\* ---------------------------------------------------------------- claim C20
ExpectedPredictions == <<0, 0, 0, 0, 0, 0, 0, 1, 1, 1, 1, 0, 0>>

BendersPredictions ==
    [i \in Rows |-> Predict(fit_values.b, fit_values.p, fit_values.w, X[i])]

Only(pred) == [i \in DOMAIN pred |-> {pred[i]}]

\* the optimal solutions of the direct model all branch at the root on the
\* first feature
DirectBranchesOnFirst(best) ==
    \A s \in DirectOptimal(best) : s[1][<<1, 1>>] = 1

\* C20: on the 13-row dataset with the given labels the optimal depth-1
\* tree is unique up to prediction: it branches at the root on the first
\* feature and predicts [0,0,0,0,0,0,0,1,1,1,1,0,0] on the training rows,
\* in the direct and in the Benders formulation.
C20_ScenarioOptimumIsUnique ==
    /\ (fit_values # NotFitted /\ status = "optimal") =>
         /\ fit_values.b[<<1, 1>>] = 1
         /\ BendersPredictions = Only(ExpectedPredictions)
    /\ direct # NotFitted =>
         /\ direct.predictions = Only(ExpectedPredictions)
         /\ DirectBranchesOnFirst(direct.obj)

\* both formulations fitted, ten of the thirteen rows predicted right
C20_Witness ==
    /\ BothFitted
    /\ status = "optimal"
    /\ phase = "scenario"
    /\ cuts # {}
    /\ fit_values.obj = 10 * Scale
    /\ direct.obj = 10 * Scale
    /\ BendersPredictions = direct.predictions

\* ---------------------------------------------------------------- C21
ObjectiveSet == phase = "objective" /\ call.objective = "MAXIMIZE"

\* yhat[i,k] + (y[i] - yhat[i,k]) / ipw[i], cleared of its denominator
DoublyRobust(c, i, k) ==
    c[1] * call.ipw[i][1] =
      c[2] * (call.y_hat[i][k + 1] * call.ipw[i][1]
                + (call.y[i] - call.y_hat[i][k + 1]) * call.ipw[i][2])

DirectOnly(c, i, k) == c[1] = c[2] * call.y_hat[i][k + 1]

\* C21: in the objective FlowOPT_DR sets, the coefficient of zeta[i,n,k] is
\* yhat[i,k] for a treatment k other than t[i] and
\* yhat[i,k] + (y[i] - yhat[i,k]) / ipw[i] for k = t[i]; in the objective
\* FlowOPT_DM sets it is yhat[i,k] for every k; the objective has a term
\* for every declared zeta and for nothing else, and no term raises.
C21_DoublyRobustCoefficients ==
    /\ phase = "objective" =>
         /\ call.raised = "none"
         /\ DOMAIN call.obj \subseteq call.declared
    /\ ObjectiveSet =>
         /\ DOMAIN call.obj = ZetaKeys(depth)
         /\ \A key \in ZetaKeys(depth) :
              LET i == key[1]
                  k == key[3]
              IN  IF call.est = "FlowOPT_DR" /\ k = t[i]
                    THEN DoublyRobust(call.obj[key], i, k)
                    ELSE DirectOnly(call.obj[key], i, k)

\* a doubly-robust objective is set in which the correction changes the
\* coefficient of the observed treatment of a row with ipw below 1
C21_Witness ==
    /\ ObjectiveSet
    /\ call.est = "FlowOPT_DR"
    /\ depth = FlowDepth
    /\ \E key \in ZetaKeys(depth) :
         /\ key[3] = t[key[1]]
         /\ call.ipw[key[1]][1] < call.ipw[key[1]][2]
         /\ ~DirectOnly(call.obj[key], key[1], key[3])
         /\ DoublyRobust(call.obj[key], key[1], key[3])

\* ---------------------------------------------------------------- C22
\* the nodes and leaves below n, n included
Subtree(n) == {m \in NodesAndLeaves(depth) : m = n \/ n \in get_ancestors(m)}

\* C22: in every solution of the single-sink flow model of a datapoint the
\* flow into a node is the flow absorbed at and below it, so the root flow
\* is the total absorbed flow; the root flow, the objective's multiplier of
\* y[i] / ipw[i], lies between 0 and 1, and so does every z and zeta, though
\* the variables are declared with a lower bound only.
C22_RootFlowIsAbsorbedOnce ==
    phase = "flowed" =>
      /\ \A n \in NodesAndLeaves(depth) : z[n] = quicksum(zeta, Subtree(n))
      /\ z[1] = quicksum(zeta, NodesAndLeaves(depth))
      /\ 0 <= z[1] /\ z[1] <= Scale
      /\ \A n \in NodesAndLeaves(depth) :
           z[n] \in 0..Scale /\ zeta[n] \in 0..Scale

\* a full unit enters the root and is absorbed at a leaf below a branching
\* root, values above 1 being within the declared bounds
C22_Witness ==
    /\ phase = "flowed"
    /\ ZMax > Scale
    /\ p[1] = 0
    /\ z[1] = Scale
    /\ zeta[1] = 0
    /\ \E n \in Leaves(depth) : zeta[n] = Scale

\* ---------------------------------------------------------------- C23
Accepted == cb.state = "no-op" /\ cb.context = "integer"

\* C23: the solve loop ends.  From some point on the solve is over at its
\* optimum, with the callback idle (so every invocation has returned and
\* the oracle is in the cut-added state only finitely often), an incumbent
\* and fitted values; an incumbent is only ever a candidate accepted by an
\* invocation that added no cut; every cut the oracle adds is new and cuts
\* off the candidate it was called with; and the number of integral
\* candidates stays within twice the number of structures, so that it is
\* not a limit on the calls that ends the loop.
C23_SolveLoopTerminates ==
    /\ <>[](/\ status = "optimal"
            /\ cb.state = "idle"
            /\ incumbent # NoCand
            /\ fit_values # NotFitted)
    /\ [](cb.state = "cut-added" =>
            /\ cb.added # {}
            /\ \A c \in cb.added :
                 ~CutHolds(c, cb.cand.b, cb.cand.w, cb.cand.g))
    /\ [](callback_counter_integer < LoopBudget)
    /\ [][/\ cb.state # "cut-added" /\ cb'.state = "cut-added" =>
              cuts' # cuts /\ cuts \subseteq cuts'
          /\ incumbent' # incumbent => Accepted /\ incumbent' = cb.cand]_vars

\* the loop has ended at its optimum after at least two rounds of cuts and
\* an accepted candidate
C23_Witness ==
    /\ phase = "loop"
    /\ status = "optimal"
    /\ fit_values # NotFitted
    /\ callback_counter_integer_success >= 2
    /\ callback_counter_integer > callback_counter_integer_success
    /\ cuts # {}
    /\ cb.state = "idle"

====
